---- MODULE Spec2Model ----
(***************************************************************************)
(* The mining job-dispatch layer of crates/nockchain/src/mining.rs: the    *)
(* driver's control loop (create_mining_driver), the bounded candidate     *)
(* channel, the receiver mutex, the JoinSet of worker tasks and each       *)
(* worker's loop (mining_worker, mining_attempt_with_worker,               *)
(* initialize_mining_resources).                                           *)
(* The sizing of the worker pool at the head of create_mining_driver, the  *)
(* parallel transform engine of zkvm-jetpack/src/jets/bp_jets_parallel.rs  *)
(* and the domain cache of zkvm-jetpack/src/domain_cache.rs are each       *)
(* explored by a specification of their own over the same variables.       *)
(***************************************************************************)
EXTENDS Integers, Sequences, FiniteSets, TLC

\* ------------------------------------------------------------------ bounds
\* 'mine' effects delivered by the node over one run (candidates are named
\* by their arrival number 1, 2, ...).
MaxArrivals == 33
\* Worker tasks ever spawned into the JoinSet (initial ones and restarts).
MaxTasks == 3
\* Candidates taken from the channel by all workers together.
MaxDequeues == 2
\* Largest thread budget the sizing of the pool is explored with.
MaxBudget == 48
\* Threads of the rayon pool that work on one parallel loop at a time.
MaxParallel == 2
\* ------------------------------------------------------- program constants
MAX_MINING_QUEUE == 32

\* What next_effect() can hand the driver's loop: an error, an effect whose
\* root is not a cell, a cell with another head, a cell headed 'mine'.
DriverEffects == {"error", "atom", "other", "mine"}
\* The effect lists a kernel poke is taken to return, by what the root of
\* each effect is (not a cell, a cell with another head, a cell headed
\* 'command'): none, one effect of each kind, and lists in which a
\* 'command' follows another effect.
KernelReplies ==
  { << >>, << "atom" >>, << "other" >>, << "command" >>,
    << "other", "command" >>, << "command", "command" >> }

Tasks == 1..MaxTasks
NoTask == 0
NoKernel == 0
NoCandidate == 0

VARIABLES
  total_threads,   \* the budget read from MINING_THREADS
  queue,           \* the mpsc channel (candidate_tx / candidate_rx)
  arrived,         \* 'mine' effects the driver has seen
  dropped,         \* candidates refused by try_send
  spawned,         \* tasks spawned into mining_workers so far
  worker_id,       \* task -> the slot id it was spawned with
  pc,              \* task -> where its future stands
  resources,       \* task -> the kernel it constructed (NoKernel: none)
  attempts,        \* task -> calls of initialize_mining_resources
  candidate,       \* task -> the candidate of its attempt in flight
  effects,         \* task -> effects of the poke still to be looked at
  mined,           \* task -> state of its 'mined' poke: none/sent/ok/err
  kernels,         \* kernels constructed so far
  built_by,        \* kernel -> the task that constructed it
  rx_lock,         \* holder of the receiver mutex (NoTask: free)
  received,        \* log of dequeues: <<candidate, task>>
  sizing,          \* the driver's start-up: budget, worker count, share
  ntt,             \* one run of bp_ntt_parallel
  fft,             \* one run of bpmul_fft_parallel
  cache,           \* the DomainCache behind DOMAIN_CACHE
  jets,            \* calls of the jets in flight, and the cache mutex
  hot              \* calls of produce_prover_hot_state, INIT and the pool

vars == << total_threads, queue, arrived, dropped, spawned, worker_id, pc,
           resources, attempts, candidate, effects, mined, kernels,
           built_by, rx_lock, received, sizing, ntt, fft, cache, jets, hot >>

\* What the dispatch layer never writes.
engine_vars == << sizing, ntt, fft, cache, jets, hot >>
dispatcher_vars == << total_threads, queue, arrived, dropped, spawned,
                      engine_vars >>
task_vars == << worker_id, pc, resources, attempts, candidate, effects,
                mined, kernels, built_by, rx_lock, received >>
\* What the specifications of the engine and the cache leave alone.
mining_vars == << total_threads, queue, arrived, dropped, spawned, task_vars >>

\* ------------------------------------------------------------ pure helpers
calculate_optimal_workers(n) ==
  IF n >= 1 /\ n <= 4 THEN 1
  ELSE IF n >= 5 /\ n <= 8 THEN 2
  ELSE IF n >= 9 /\ n <= 16 THEN 4
  ELSE n \div 4

worker_count == calculate_optimal_workers(total_threads)

\* The task's future has panicked: in its own code, or inside
\* produce_prover_hot_state.
Panicked(t) ==
  pc[t] = "panicked" \/ (pc[t] = "hot" /\ hot.callers[t] = "panicked")

Finished(t) == pc[t] = "returned" \/ Panicked(t)

\* --------------------------------------------------------------- dispatcher
\* A send that makes room by evicting the oldest queued candidate.
try_send_evict_oldest(q, c) ==
  IF Len(q) < MAX_MINING_QUEUE
  THEN [queue |-> Append(q, c), res |-> "Ok"]
  ELSE [queue |-> Append(Tail(q), c), res |-> "Full"]

\* A send into a channel that has no capacity check.
try_send_unbounded(q, c) == [queue |-> Append(q, c), res |-> "Ok"]

\* A send that reports Ok on a full channel and lets the candidate go.
try_send_losing(q, c) ==
  IF Len(q) < MAX_MINING_QUEUE
  THEN [queue |-> Append(q, c), res |-> "Ok"]
  ELSE [queue |-> q, res |-> "Ok"]

\* candidate_tx.try_send(c): accepted while the channel holds fewer than
\* its capacity, otherwise TrySendError::Full and the channel is untouched.
try_send(q, c) ==
  IF Len(q) < MAX_MINING_QUEUE
  THEN [queue |-> Append(q, c), res |-> "Ok"]
  ELSE [queue |-> q, res |-> "Full"]

\* mining_workers.spawn(mining_worker(id, ...)): one new task for slot id,
\* added to the tasks p of the JoinSet.
spawn(p, id) ==
  /\ spawned' = spawned + 1
  /\ worker_id' = [worker_id EXCEPT ![spawned + 1] = id]
  /\ pc' = [p EXCEPT ![spawned + 1] = "init"]

\* The select! arm on handle.next_effect().
NextEffect(eff) ==
  /\ IF eff = "mine"
     THEN /\ arrived < MaxArrivals
          /\ LET c == arrived + 1
                 r == try_send(queue, c)
             IN /\ arrived' = c
                /\ queue' = r.queue
                /\ dropped' = IF r.res = "Ok" THEN dropped ELSE dropped \cup {c}
          /\ UNCHANGED << engine_vars, total_threads, spawned >>
     ELSE UNCHANGED dispatcher_vars
  /\ UNCHANGED task_vars

\* The driver when its loop is entered: the budget read, the channel
\* empty, one task spawned per worker slot. The MINING_THREADS settings
\* explored: one worker (4) and two workers (8).
DriverInit ==
  /\ total_threads \in {4, 8}
  /\ queue = << >>
  /\ arrived = 0
  /\ dropped = {}
  /\ spawned = worker_count
  /\ worker_id = [t \in Tasks |-> IF t <= worker_count THEN t - 1 ELSE 0]
  /\ pc = [t \in Tasks |-> IF t <= worker_count THEN "init" ELSE "unspawned"]
  /\ resources = [t \in Tasks |-> NoKernel]
  /\ attempts = [t \in Tasks |-> 0]
  /\ candidate = [t \in Tasks |-> NoCandidate]
  /\ effects = [t \in Tasks |-> << >>]
  /\ mined = [t \in Tasks |-> "none"]
  /\ kernels = 0
  /\ built_by = [k \in Tasks |-> NoTask]
  /\ rx_lock = NoTask
  /\ received = << >>

\* No transform running and the domain cache not yet touched.
Idle == [pc |-> "idle"]

\* INIT and the pool before the first call of produce_prover_hot_state.
HotNew ==
  [pc |-> "ready", once |-> "new", builds |-> 0, started |-> 0,
   callers |-> [t \in Tasks |-> "idle"]]

\* total_threads / worker_count in usize: a zero divisor panics.
threads_per_worker(s) ==
  IF s.worker_count = 0
  THEN [pc |-> "panicked", total_threads |-> s.total_threads,
        worker_count |-> s.worker_count]
  ELSE [pc |-> "sized", total_threads |-> s.total_threads,
        worker_count |-> s.worker_count,
        threads_per_worker |-> s.total_threads \div s.worker_count]

Init ==
  /\ DriverInit
  /\ sizing = threads_per_worker([total_threads |-> total_threads,
                                  worker_count |-> worker_count])
  /\ ntt = Idle /\ fft = Idle /\ cache = Idle /\ jets = Idle
  /\ hot = HotNew

\* The dispatch layer as it stands at the head of a run with the default
\* budget, for the specifications that do not move it.
DriverParked == DriverInit /\ total_threads = 4

\* A restart that numbers the new worker by the count of spawned tasks
\* instead of the slot id the finished task returned.
join_ok_fresh_id(t) ==
  /\ spawned < MaxTasks
  /\ spawn([pc EXCEPT ![t] = "joined"], spawned)

\* A restart that hands the new worker the slot after the one returned.
join_ok_next_slot(t) ==
  /\ spawned < MaxTasks
  /\ spawn([pc EXCEPT ![t] = "joined"], (worker_id[t] + 1) % worker_count)

\* join_next() yielded Ok(worker_id): the task returned its slot id and the
\* slot is restarted. (The guard on MaxTasks caps the number of restarts.)
join_ok(t) ==
  /\ spawned < MaxTasks
  /\ spawn([pc EXCEPT ![t] = "joined"], worker_id[t])

\* A join result that is unwrapped: a JoinError propagates into the
\* driver's own future, which joins nothing any more.
join_err_unwrap(t) ==
  /\ FALSE
  /\ UNCHANGED << pc, spawned, worker_id >>

\* join_next() yielded Err(JoinError): the task panicked; only a warning.
join_err(t) ==
  /\ pc' = [pc EXCEPT ![t] = "joined"]
  /\ UNCHANGED << spawned, worker_id >>

\* The select! arm on mining_workers.join_next().
JoinNext(t) ==
  /\ t <= spawned
  /\ Finished(t)
  /\ IF pc[t] = "returned" THEN join_ok(t) ELSE join_err(t)
  /\ UNCHANGED << engine_vars, total_threads, queue, arrived, dropped, resources, attempts,
                  candidate, effects, mined, kernels, built_by, rx_lock,
                  received >>

\* --------------------------------------------- the hot state and the pool
\* Calls of mining_attempt explored in one run.
MaxHotCalls == 4

\* produce_prover_hot_state is called by the worker tasks, from
\* initialize_mining_resources, and by the callers of mining_attempt.
\* INIT is `new` until a call_once has started, `running` while the
\* closure runs, then `done`, or `poisoned` when the closure panicked.
\* builds counts the global pools built, callers holds where each task
\* stands in the function.
InitHot ==
  /\ DriverParked
  /\ sizing = Idle
  /\ ntt = Idle
  /\ fft = Idle
  /\ cache = Idle
  /\ jets = Idle
  /\ hot = HotNew

\* The task enters produce_prover_hot_state.
hot_call(h, t) == [h EXCEPT !.started = @ + 1, !.callers[t] = "call_once"]

\* mining_attempt(candidate, handle) up to its call of
\* produce_prover_hot_state: the temporary directory, whose failure
\* panics the caller.
HotCall(t, ok) ==
  /\ hot.pc = "ready"
  /\ hot.callers[t] \in {"idle", "attempted", "panicked"}
  /\ hot.started < MaxHotCalls
  /\ hot' = IF ok THEN hot_call(hot, t)
            ELSE [hot EXCEPT !.started = @ + 1, !.callers[t] = "panicked"]
  /\ UNCHANGED << mining_vars, sizing, ntt, fft, cache, jets >>

\* A flag in place of Once: a caller that finds the initialization
\* started goes on without waiting for it.
call_once_flag(h, t) ==
  IF h.once = "new"
  THEN [h EXCEPT !.once = "running", !.callers[t] = "init_pool"]
  ELSE [h EXCEPT !.callers[t] = "extend"]

\* INIT.call_once(..): the first caller runs the closure, a caller that
\* finds it running stays where it is, a caller after completion goes
\* on, a caller on a poisoned INIT panics.
call_once(h, t) ==
  IF h.once = "new"
  THEN [h EXCEPT !.once = "running", !.callers[t] = "init_pool"]
  ELSE IF h.once = "running" THEN h
  ELSE IF h.once = "done"
  THEN [h EXCEPT !.callers[t] = "extend"]
  ELSE [h EXCEPT !.callers[t] = "panicked"]

\* INIT.call_once(|| init_mining_thread_pool()) by task t; blocked while
\* the closure runs in another caller.
CallOnce(t) ==
  /\ hot.pc = "ready"
  /\ hot.callers[t] = "call_once"
  /\ call_once(hot, t) # hot
  /\ hot' = call_once(hot, t)
  /\ UNCHANGED << mining_vars, sizing, ntt, fft, cache, jets >>

\* init_mining_thread_pool(): build_global() gives Ok, or Err (a global
\* pool exists already, or its threads cannot be started) and the expect
\* panics inside the closure, which poisons INIT.
InitPool(t, ok) ==
  /\ hot.pc = "ready"
  /\ hot.callers[t] = "init_pool"
  /\ hot' = IF ok
            THEN [hot EXCEPT !.once = "done", !.builds = @ + 1,
                             !.callers[t] = "extend"]
            ELSE [hot EXCEPT !.once = "poisoned", !.callers[t] = "panicked"]
  /\ UNCHANGED << mining_vars, sizing, ntt, fft, cache, jets >>

\* jets.extend(..) eight times, then the vector is returned.
HotReturn(t) ==
  /\ hot.pc = "ready"
  /\ hot.callers[t] = "extend"
  /\ hot' = [hot EXCEPT !.callers[t] = "returned"]
  /\ UNCHANGED << mining_vars, sizing, ntt, fft, cache, jets >>

\* mining_attempt: Kernel::load_with_hot_state_huge(..).await, started
\* when the hot state was returned, comes back: a fresh kernel, local to
\* the call, on Ok; the expect panics the caller on Err.
AttemptLoad(t, ok) ==
  /\ hot.pc = "ready"
  /\ pc[t] # "hot"
  /\ hot.callers[t] = "returned"
  /\ IF ok
     THEN /\ kernels' = kernels + 1
          /\ resources' = [resources EXCEPT ![t] = kernels + 1]
          /\ built_by' = [k \in DOMAIN built_by \cup {kernels + 1} |->
                            IF k = kernels + 1 THEN t ELSE built_by[k]]
          /\ hot' = [hot EXCEPT !.callers[t] = "poke"]
     ELSE /\ hot' = [hot EXCEPT !.callers[t] = "panicked"]
          /\ UNCHANGED << kernels, resources, built_by >>
  /\ UNCHANGED << total_threads, queue, arrived, dropped, spawned, worker_id,
                  pc, attempts, candidate, effects, mined, rx_lock, received,
                  sizing, ntt, fft, cache, jets >>

\* mining_attempt: kernel.poke(Candidate, candidate).await comes back:
\* Ok(slab) gives the effects to walk, Err panics the caller on the
\* expect and the kernel is dropped.
AttemptPoke(t, ok, effs) ==
  /\ hot.pc = "ready"
  /\ hot.callers[t] = "poke"
  /\ IF ok
     THEN /\ effects' = [effects EXCEPT ![t] = effs]
          /\ hot' = [hot EXCEPT !.callers[t] = "effects"]
          /\ UNCHANGED resources
     ELSE /\ effs = << >>
          /\ hot' = [hot EXCEPT !.callers[t] = "panicked"]
          /\ resources' = [resources EXCEPT ![t] = NoKernel]
          /\ UNCHANGED effects
  /\ UNCHANGED << total_threads, queue, arrived, dropped, spawned, worker_id,
                  pc, attempts, candidate, mined, kernels, built_by, rx_lock,
                  received, sizing, ntt, fft, cache, jets >>

\* mining_attempt: one turn of `for effect in effects_slab.to_vec()`: a
\* "command" effect is poked to the node on the Mined wire, anything else
\* is skipped; with no effect left the call returns and its kernel is
\* dropped.
AttemptEffects(t) ==
  /\ hot.pc = "ready"
  /\ hot.callers[t] = "effects"
  /\ IF effects[t] = << >>
     THEN /\ hot' = [hot EXCEPT !.callers[t] = "attempted"]
          /\ resources' = [resources EXCEPT ![t] = NoKernel]
          /\ UNCHANGED << effects, mined >>
     ELSE /\ effects' = [effects EXCEPT ![t] = Tail(@)]
          /\ IF Head(effects[t]) = "command"
             THEN /\ mined' = [mined EXCEPT ![t] = "sent"]
                  /\ hot' = [hot EXCEPT !.callers[t] = "mined"]
             ELSE UNCHANGED << mined, hot >>
          /\ UNCHANGED resources
  /\ UNCHANGED << total_threads, queue, arrived, dropped, spawned, worker_id,
                  pc, attempts, candidate, kernels, built_by, rx_lock,
                  received, sizing, ntt, fft, cache, jets >>

\* mining_attempt: handle.poke(Mined, effect).await.expect(..): the caller
\* resumes on the node's answer; an Err panics it.
AttemptMined(t) ==
  /\ hot.pc = "ready"
  /\ hot.callers[t] = "mined"
  /\ mined[t] \in {"ok", "err"}
  /\ mined' = [mined EXCEPT ![t] = "none"]
  /\ IF mined[t] = "ok"
     THEN /\ hot' = [hot EXCEPT !.callers[t] = "effects"]
          /\ UNCHANGED resources
     ELSE /\ hot' = [hot EXCEPT !.callers[t] = "panicked"]
          /\ resources' = [resources EXCEPT ![t] = NoKernel]
  /\ UNCHANGED << total_threads, queue, arrived, dropped, spawned, worker_id,
                  pc, attempts, candidate, effects, kernels, built_by, rx_lock,
                  received, sizing, ntt, fft, cache, jets >>

\* The node answers the 'mined' poke: a PokeResult, or the poke fails.
MinedAnswer(t, res) ==
  /\ mined[t] = "sent"
  /\ mined' = [mined EXCEPT ![t] = res]
  /\ UNCHANGED << dispatcher_vars, worker_id, pc, resources, attempts,
                  candidate, effects, kernels, built_by, rx_lock, received >>

\* Concurrent calls of mining_attempt, and the node.
NextHot ==
  \E t \in Tasks :
    \/ \E ok \in BOOLEAN : HotCall(t, ok)
    \/ CallOnce(t)
    \/ \E ok \in BOOLEAN : InitPool(t, ok)
    \/ HotReturn(t)
    \/ \E ok \in BOOLEAN : AttemptLoad(t, ok)
    \/ \E ok \in BOOLEAN, effs \in KernelReplies : AttemptPoke(t, ok, effs)
    \/ AttemptEffects(t)
    \/ AttemptMined(t)
    \/ \E res \in {"ok", "err"} : MinedAnswer(t, res)

SpecHot == InitHot /\ [][NextHot]_vars

\* ------------------------------------------------------------------ worker
\* Resources "initialized once and cached": every worker is handed the
\* first kernel constructed instead of one of its own.
InitResources_cached(t, ok) ==
  /\ pc[t] = "hot"
  /\ hot.callers[t] = "returned"
  /\ IF ok
     THEN /\ kernels' = IF kernels = 0 THEN 1 ELSE kernels
          /\ resources' = [resources EXCEPT ![t] = 1]
          /\ built_by' = IF kernels = 0 THEN [built_by EXCEPT ![1] = t] ELSE built_by
          /\ pc' = [pc EXCEPT ![t] = "lock"]
     ELSE /\ pc' = [pc EXCEPT ![t] = "returned"]
          /\ UNCHANGED << kernels, resources, built_by >>
  /\ UNCHANGED << dispatcher_vars, worker_id, attempts, candidate, effects,
                  mined, rx_lock, received >>

\* The head of mining_worker up to the call of produce_prover_hot_state:
\* initialize_mining_resources is entered and awaits the temporary
\* directory from spawn_blocking; a JoinError leaves through `?` and the
\* worker returns its slot id.
TempDir(t, ok) ==
  /\ pc[t] = "init"
  /\ attempts' = [attempts EXCEPT ![t] = @ + 1]
  /\ IF ok
     THEN /\ pc' = [pc EXCEPT ![t] = "hot"]
          /\ hot' = hot_call(hot, t)
     ELSE /\ pc' = [pc EXCEPT ![t] = "returned"]
          /\ hot' = hot
  /\ UNCHANGED << total_threads, queue, arrived, dropped, spawned, sizing,
                  ntt, fft, cache, jets, worker_id, resources, candidate,
                  effects, mined, kernels, built_by, rx_lock, received >>

\* Kernel::load_with_hot_state_huge(..).await, started when the hot state
\* was returned, comes back: a fresh kernel on Ok, the slot id returned
\* on Err.
InitResources(t, ok) ==
  /\ pc[t] = "hot"
  /\ hot.callers[t] = "returned"
  /\ IF ok
     THEN /\ kernels' = kernels + 1
          /\ resources' = [resources EXCEPT ![t] = kernels + 1]
          /\ built_by' = [built_by EXCEPT ![kernels + 1] = t]
          /\ pc' = [pc EXCEPT ![t] = "lock"]
     ELSE /\ pc' = [pc EXCEPT ![t] = "returned"]
          /\ UNCHANGED << kernels, resources, built_by >>
  /\ UNCHANGED << dispatcher_vars, worker_id, attempts, candidate, effects,
                  mined, rx_lock, received >>

\* A lock that is granted whether or not another task holds it.
LockRx_no_mutex(t) ==
  /\ pc[t] = "lock"
  /\ rx_lock' = t
  /\ pc' = [pc EXCEPT ![t] = "recv"]
  /\ UNCHANGED << dispatcher_vars, worker_id, resources, attempts, candidate,
                  effects, mined, kernels, built_by, received >>

\* candidate_rx.lock().await
LockRx(t) ==
  /\ pc[t] = "lock"
  /\ rx_lock = NoTask
  /\ rx_lock' = t
  /\ pc' = [pc EXCEPT ![t] = "recv"]
  /\ UNCHANGED << dispatcher_vars, worker_id, resources, attempts, candidate,
                  effects, mined, kernels, built_by, received >>

\* A receive that reads the head of the channel without removing it.
Recv_peek(t) ==
  /\ pc[t] = "recv"
  /\ queue # << >>
  /\ Len(received) < MaxDequeues
  /\ candidate' = [candidate EXCEPT ![t] = Head(queue)]
  /\ received' = Append(received, << Head(queue), t >>)
  /\ rx_lock' = IF rx_lock = t THEN NoTask ELSE rx_lock
  /\ pc' = [pc EXCEPT ![t] = "poke"]
  /\ UNCHANGED << engine_vars, total_threads, queue, arrived, dropped, spawned, worker_id,
                  resources, attempts, effects, mined, kernels, built_by >>

\* A worker that hands the attempt to a background task and goes straight
\* back to the channel.
Recv_detached(t) ==
  /\ pc[t] = "recv"
  /\ queue # << >>
  /\ Len(received) < MaxDequeues
  /\ candidate' = [candidate EXCEPT ![t] = Head(queue)]
  /\ queue' = Tail(queue)
  /\ received' = Append(received, << Head(queue), t >>)
  /\ rx_lock' = IF rx_lock = t THEN NoTask ELSE rx_lock
  /\ pc' = [pc EXCEPT ![t] = "lock"]
  /\ UNCHANGED << engine_vars, total_threads, arrived, dropped, spawned, worker_id,
                  resources, attempts, effects, mined, kernels, built_by >>

\* A receive that takes the candidate sent last.
Recv_newest(t) ==
  /\ pc[t] = "recv"
  /\ queue # << >>
  /\ Len(received) < MaxDequeues
  /\ candidate' = [candidate EXCEPT ![t] = queue[Len(queue)]]
  /\ queue' = SubSeq(queue, 1, Len(queue) - 1)
  /\ received' = Append(received, << queue[Len(queue)], t >>)
  /\ rx_lock' = IF rx_lock = t THEN NoTask ELSE rx_lock
  /\ pc' = [pc EXCEPT ![t] = "poke"]
  /\ UNCHANGED << engine_vars, total_threads, arrived, dropped, spawned, worker_id,
                  resources, attempts, effects, mined, kernels, built_by >>

\* A worker that answers a failed poke by constructing a fresh kernel for
\* its next attempt.
PokeDone_fresh_kernel(t, ok, effs) ==
  /\ pc[t] = "poke"
  /\ IF ok
     THEN /\ effects' = [effects EXCEPT ![t] = effs]
          /\ pc' = [pc EXCEPT ![t] = "effects"]
          /\ UNCHANGED << candidate, attempts, kernels, resources, built_by >>
     ELSE /\ effs = << >>
          /\ candidate' = [candidate EXCEPT ![t] = NoCandidate]
          /\ pc' = [pc EXCEPT ![t] = "lock"]
          /\ attempts' = [attempts EXCEPT ![t] = @ + 1]
          /\ kernels' = kernels + 1
          /\ resources' = [resources EXCEPT ![t] = kernels + 1]
          /\ built_by' = [k \in DOMAIN built_by \cup {kernels + 1} |->
                            IF k = kernels + 1 THEN t ELSE built_by[k]]
          /\ UNCHANGED effects
  /\ UNCHANGED << engine_vars, total_threads, queue, arrived, dropped, spawned,
                  worker_id, mined, rx_lock, received >>

\* A receive whose guard lives on through the attempt: the candidate is
\* taken and the mutex stays with the worker.
Recv_keeping_guard(t) ==
  /\ pc[t] = "recv"
  /\ queue # << >>
  /\ Len(received) < MaxDequeues
  /\ candidate' = [candidate EXCEPT ![t] = Head(queue)]
  /\ queue' = Tail(queue)
  /\ received' = Append(received, << Head(queue), t >>)
  /\ pc' = [pc EXCEPT ![t] = "poke"]
  /\ UNCHANGED << engine_vars, total_threads, arrived, dropped, spawned, worker_id,
                  resources, attempts, effects, mined, kernels, built_by, rx_lock >>

\* A receive that waits until two candidates are queued.
Recv_in_pairs(t) ==
  /\ pc[t] = "recv"
  /\ Len(queue) >= 2
  /\ Len(received) < MaxDequeues
  /\ candidate' = [candidate EXCEPT ![t] = Head(queue)]
  /\ queue' = Tail(queue)
  /\ received' = Append(received, << Head(queue), t >>)
  /\ rx_lock' = IF rx_lock = t THEN NoTask ELSE rx_lock
  /\ pc' = [pc EXCEPT ![t] = "poke"]
  /\ UNCHANGED << engine_vars, total_threads, arrived, dropped, spawned, worker_id,
                  resources, attempts, effects, mined, kernels, built_by >>

\* rx.recv().await yields Some(c); the guard drops at the end of the block
\* and the poke of this worker's kernel starts. (recv() yields None only
\* once every sender is gone, and the driver's loop keeps candidate_tx.)
Recv(t) ==
  /\ pc[t] = "recv"
  /\ queue # << >>
  /\ Len(received) < MaxDequeues
  /\ candidate' = [candidate EXCEPT ![t] = Head(queue)]
  /\ queue' = Tail(queue)
  /\ received' = Append(received, << Head(queue), t >>)
  /\ rx_lock' = IF rx_lock = t THEN NoTask ELSE rx_lock
  /\ pc' = [pc EXCEPT ![t] = "poke"]
  /\ UNCHANGED << engine_vars, total_threads, arrived, dropped, spawned, worker_id,
                  resources, attempts, effects, mined, kernels, built_by >>

\* resources.kernel.poke(Candidate, candidate).await comes back: Err ends the
\* attempt with a warning, Ok(slab) gives the effects to walk.
PokeDone(t, ok, effs) ==
  /\ pc[t] = "poke"
  /\ IF ok
     THEN /\ effects' = [effects EXCEPT ![t] = effs]
          /\ pc' = [pc EXCEPT ![t] = "effects"]
          /\ UNCHANGED candidate
     ELSE /\ effs = << >>
          /\ candidate' = [candidate EXCEPT ![t] = NoCandidate]
          /\ pc' = [pc EXCEPT ![t] = "lock"]
          /\ UNCHANGED effects
  /\ UNCHANGED << dispatcher_vars, worker_id, resources, attempts, mined,
                  kernels, built_by, rx_lock, received >>

\* One turn of `for effect in effects_slab.to_vec()`: a "command" effect is
\* poked to the node on the Mined wire, anything else is skipped; with no
\* effect left the attempt returns and the worker loops.
WalkEffects(t) ==
  /\ pc[t] = "effects"
  /\ IF effects[t] = << >>
     THEN /\ candidate' = [candidate EXCEPT ![t] = NoCandidate]
          /\ pc' = [pc EXCEPT ![t] = "lock"]
          /\ UNCHANGED << effects, mined >>
     ELSE /\ effects' = [effects EXCEPT ![t] = Tail(@)]
          /\ IF Head(effects[t]) = "command"
             THEN /\ mined' = [mined EXCEPT ![t] = "sent"]
                  /\ pc' = [pc EXCEPT ![t] = "mined"]
             ELSE UNCHANGED << mined, pc >>
          /\ UNCHANGED candidate
  /\ UNCHANGED << dispatcher_vars, worker_id, resources, attempts, kernels,
                  built_by, rx_lock, received >>

\* handle.poke(Mined, effect).await.expect(..): the worker resumes on the
\* answer; an Err panics the task.
MinedReturn(t) ==
  /\ pc[t] = "mined"
  /\ mined[t] \in {"ok", "err"}
  /\ mined' = [mined EXCEPT ![t] = "none"]
  /\ pc' = [pc EXCEPT ![t] = IF mined[t] = "ok" THEN "effects" ELSE "panicked"]
  /\ UNCHANGED << dispatcher_vars, worker_id, resources, attempts, candidate,
                  effects, kernels, built_by, rx_lock, received >>

WorkerStep(t) ==
  \/ \E ok \in BOOLEAN : TempDir(t, ok)
  \/ CallOnce(t)
  \/ \E ok \in BOOLEAN : InitPool(t, ok)
  \/ HotReturn(t)
  \/ \E ok \in BOOLEAN : InitResources(t, ok)
  \/ LockRx(t)
  \/ Recv(t)
  \/ \E ok \in BOOLEAN, effs \in KernelReplies : PokeDone(t, ok, effs)
  \/ WalkEffects(t)
  \/ MinedReturn(t)

Next ==
  \/ \E eff \in DriverEffects : NextEffect(eff)
  \/ \E t \in Tasks : JoinNext(t)
  \/ \E t \in Tasks : WorkerStep(t)
  \/ \E t \in Tasks, res \in {"ok", "err"} : MinedAnswer(t, res)

Spec == Init /\ [][Next]_vars

\* A step of a worker whose construction does not succeed: the temporary
\* directory fails, or the pool cannot be built, or the kernel does not
\* load.
StepFailingInit(t) ==
  \/ \E ok \in BOOLEAN : TempDir(t, ok)
  \/ CallOnce(t)
  \/ \E ok \in BOOLEAN : InitPool(t, ok)
  \/ HotReturn(t)
  \/ InitResources(t, FALSE)

\* The driver and its workers when initialize_mining_resources fails on
\* every call. select! polls both arms and takes a ready one, and the
\* runtime polls every spawned task: a termination that can be joined is
\* joined, a task that can run its construction runs it.
NextFailingInit ==
  \/ \E eff \in DriverEffects : NextEffect(eff)
  \/ \E t \in Tasks : JoinNext(t)
  \/ \E t \in Tasks : StepFailingInit(t)

SpecFailingInit ==
  /\ Init
  /\ [][NextFailingInit]_vars
  /\ WF_vars(\E t \in Tasks : JoinNext(t))
  /\ \A t \in Tasks : WF_vars(StepFailingInit(t))

\* The driver and its workers when every construction succeeds and no
\* attempt panics: the node answers every 'mined' poke with Ok. The
\* runtime polls every task that can take a step, and the node answers
\* every poke it was sent; nothing obliges a 'mine' effect to arrive.
StepHealthy(t) ==
  \/ TempDir(t, TRUE)
  \/ CallOnce(t)
  \/ InitPool(t, TRUE)
  \/ HotReturn(t)
  \/ InitResources(t, TRUE)
  \/ LockRx(t)
  \/ Recv(t)
  \/ \E ok \in BOOLEAN, effs \in KernelReplies : PokeDone(t, ok, effs)
  \/ WalkEffects(t)
  \/ MinedReturn(t)

NextHealthy ==
  \/ \E eff \in DriverEffects : NextEffect(eff)
  \/ \E t \in Tasks : StepHealthy(t)
  \/ \E t \in Tasks : MinedAnswer(t, "ok")

SpecHealthy ==
  /\ Init
  /\ [][NextHealthy]_vars
  /\ \A t \in Tasks : WF_vars(StepHealthy(t))
  /\ \A t \in Tasks : WF_vars(MinedAnswer(t, "ok"))

\* --------------------------------------------------------- sizing the pool
\* MINING_THREADS parses as any usize, 0 included.
InitSizing ==
  /\ DriverParked
  /\ ntt = Idle /\ fft = Idle /\ cache = Idle /\ jets = Idle
  /\ hot = Idle
  /\ \E n \in 0..MaxBudget : sizing = [pc |-> "budget", total_threads |-> n]

\* let worker_count = calculate_optimal_workers(total_threads);
SizeWorkers ==
  /\ sizing.pc = "budget"
  /\ sizing' = [pc |-> "workers", total_threads |-> sizing.total_threads,
                worker_count |-> calculate_optimal_workers(sizing.total_threads)]
  /\ UNCHANGED << mining_vars, hot, jets, ntt, fft, cache >>

\* let threads_per_worker = total_threads / worker_count;
ShareThreads ==
  /\ sizing.pc = "workers"
  /\ sizing' = threads_per_worker(sizing)
  /\ UNCHANGED << mining_vars, hot, jets, ntt, fft, cache >>

NextSizing == SizeWorkers \/ ShareThreads

SpecSizing == InitSizing /\ [][NextSizing]_vars

\* --------------------------------------------------------- field elements
\* A Belt is a u64 below the prime P = 2^64 - 2^32 + 1, held here as its
\* eight bytes, least significant first.
\* (P itself is << 1, 0, 0, 0, 255, 255, 255, 255 >>.)
PRIME_MINUS_TWO == << 255, 255, 255, 255, 254, 255, 255, 255 >>

\* Belt(n) for a u64 n that fits 31 bits.
Belt(n) ==
  << n % 256, (n \div 256) % 256, (n \div 65536) % 256,
     (n \div 16777216) % 256, 0, 0, 0, 0 >>
Zero == Belt(0)
One == Belt(1)

\* Carries run through four columns of signed digits: their bytes, then
\* the carry out of the fourth.
RippleFour(c1, c2, c3, c4, cin) ==
  LET v1 == c1 + cin
      v2 == c2 + (v1 \div 256)
      v3 == c3 + (v2 \div 256)
      v4 == c4 + (v3 \div 256)
  IN << v1 % 256, v2 % 256, v3 % 256, v4 % 256, v4 \div 256 >>

\* Carries run through the columns i..n of signed digits, four at a
\* time: the bytes of the sum, then the carry out of the last column.
RECURSIVE Carry(_, _, _, _)
Carry(cols, n, i, cin) ==
  IF i > n THEN << cin >>
  ELSE LET r == RippleFour(cols[i], cols[i + 1], cols[i + 2], cols[i + 3], cin)
       IN SubSeq(r, 1, 4) \o Carry(cols, n, i + 4, r[5])

\* The Belt congruent to eight columns of signed digits: a carry out of the
\* top is folded back with 2^64 = 2^32 - 1 (mod P), and a value in
\* [P, 2^64) loses one P.
RECURSIVE Fold(_)
Fold(cols) ==
  LET r == Carry(cols, 8, 1, 0)
      c == r[9]
  IN IF c # 0
     THEN Fold(<< r[1] - c, r[2], r[3], r[4], r[5] + c, r[6], r[7], r[8] >>)
     ELSE IF r[5] = 255 /\ r[6] = 255 /\ r[7] = 255 /\ r[8] = 255
             /\ (r[1] # 0 \/ r[2] # 0 \/ r[3] # 0 \/ r[4] # 0)
          THEN SubSeq(Carry(<< r[1] - 1, r[2], r[3], r[4], 0, 0, 0, 0 >>,
                            8, 1, 0), 1, 8)
          ELSE SubSeq(r, 1, 8)

badd(a, b) ==
  IF a = Zero THEN b
  ELSE IF b = Zero THEN a
  ELSE Fold(<< a[1] + b[1], a[2] + b[2], a[3] + b[3], a[4] + b[4],
               a[5] + b[5], a[6] + b[6], a[7] + b[7], a[8] + b[8] >>)
bsub(a, b) ==
  IF b = Zero THEN a
  ELSE IF a = b THEN Zero
  ELSE Fold(<< a[1] - b[1], a[2] - b[2], a[3] - b[3], a[4] - b[4],
               a[5] - b[5], a[6] - b[6], a[7] - b[7], a[8] - b[8] >>)

\* The 128-bit product, sixteen bytes: the columns of the schoolbook
\* product of the bytes, then the carries.
Wide(a, b) ==
  Carry(<< a[1]*b[1],
           a[1]*b[2] + a[2]*b[1],
           a[1]*b[3] + a[2]*b[2] + a[3]*b[1],
           a[1]*b[4] + a[2]*b[3] + a[3]*b[2] + a[4]*b[1],
           a[1]*b[5] + a[2]*b[4] + a[3]*b[3] + a[4]*b[2] + a[5]*b[1],
           a[1]*b[6] + a[2]*b[5] + a[3]*b[4] + a[4]*b[3] + a[5]*b[2]
             + a[6]*b[1],
           a[1]*b[7] + a[2]*b[6] + a[3]*b[5] + a[4]*b[4] + a[5]*b[3]
             + a[6]*b[2] + a[7]*b[1],
           a[1]*b[8] + a[2]*b[7] + a[3]*b[6] + a[4]*b[5] + a[5]*b[4]
             + a[6]*b[3] + a[7]*b[2] + a[8]*b[1],
           a[2]*b[8] + a[3]*b[7] + a[4]*b[6] + a[5]*b[5] + a[6]*b[4]
             + a[7]*b[3] + a[8]*b[2],
           a[3]*b[8] + a[4]*b[7] + a[5]*b[6] + a[6]*b[5] + a[7]*b[4]
             + a[8]*b[3],
           a[4]*b[8] + a[5]*b[7] + a[6]*b[6] + a[7]*b[5] + a[8]*b[4],
           a[5]*b[8] + a[6]*b[7] + a[7]*b[6] + a[8]*b[5],
           a[6]*b[8] + a[7]*b[7] + a[8]*b[6],
           a[7]*b[8] + a[8]*b[7],
           a[8]*b[8],
           0 >>, 16, 1, 0)

\* x0 + x1 2^32 + x2 2^64 + x3 2^96 = (x0 - x2 - x3) + (x1 + x2) 2^32 mod P.
bmul(a, b) ==
  IF a = Zero \/ b = Zero THEN Zero
  ELSE LET w == Wide(a, b)
       IN Fold(<< w[1] - w[9] - w[13], w[2] - w[10] - w[14],
                  w[3] - w[11] - w[15], w[4] - w[12] - w[16],
                  w[5] + w[9], w[6] + w[10], w[7] + w[11], w[8] + w[12] >>)

\* Binary exponentiation, the exponent a usize: acc * x^n.
RECURSIVE bpow_loop(_, _, _)
bpow_loop(x, n, acc) ==
  IF n = 0 \/ acc = Zero THEN acc
  ELSE IF x = Zero THEN Zero
  ELSE bpow_loop(bmul(x, x), n \div 2, IF n % 2 = 1 THEN bmul(acc, x) ELSE acc)

bpow(x, n) == bpow_loop(x, n, One)

\* acc * x^e for an exponent given by its bytes from the i-th on, least
\* significant first.
RECURSIVE PowBytes(_, _, _, _)
PowBytes(x, e, i, acc) ==
  IF i > Len(e) \/ acc = Zero THEN acc
  ELSE PowBytes(bpow(x, 256), e, i + 1, bmul(acc, bpow(x, e[i])))

\* The inverse by Fermat: x^(P - 2).
binv(x) == PowBytes(x, PRIME_MINUS_TWO, 1, One)

\* ordered_root(order): 7^((P - 1) / order), 7 generating the units of the
\* field; the orders the explorations use.
ordered_root(order) ==
  CASE order = 1 -> << 1, 0, 0, 0, 0, 0, 0, 0 >>
    [] order = 2 -> << 0, 0, 0, 0, 255, 255, 255, 255 >>
    [] order = 4 -> << 0, 0, 0, 0, 0, 0, 1, 0 >>
    [] order = 8 -> << 1, 0, 0, 255, 254, 255, 255, 255 >>
    [] order = 16 -> << 1, 0, 0, 0, 255, 255, 255, 239 >>
    [] order = 32 -> << 0, 192, 255, 255, 255, 63, 0, 0 >>
    [] order = 64 -> << 0, 0, 0, 0, 128, 0, 0, 0 >>
    [] order = 128 -> << 1, 0, 0, 8, 255, 7, 0, 248 >>
    [] order = 256 -> << 102, 169, 12, 230, 60, 20, 121, 191 >>

\* ------------------------------------------------------- transform engine
\* Polynomials are sequences of Belts; the code's index i is position i + 1.
ZeroPoly(n) == [i \in 1..n |-> Zero]

\* n.ilog2() for n >= 1.
RECURSIVE ilog2(_)
ilog2(n) == IF n <= 1 THEN 0 ELSE 1 + ilog2(n \div 2)

\* n.next_power_of_two() for n >= 1.
RECURSIVE next_power_of_two_from(_, _)
next_power_of_two_from(n, p) ==
  IF p >= n THEN p ELSE next_power_of_two_from(n, 2 * p)

next_power_of_two(n) == next_power_of_two_from(n, 1)

\* n.is_power_of_two(); order != 0 && order & (order - 1) == 0.
is_power_of_two(n) == n >= 1 /\ next_power_of_two(n) = n

\* bitreverse(n, l): the low l bits of n in reverse order.
RECURSIVE bitreverse_loop(_, _, _)
bitreverse_loop(n, l, r) ==
  IF l = 0 THEN r ELSE bitreverse_loop(n \div 2, l - 1, 2 * r + (n % 2))

bitreverse(n, l) == bitreverse_loop(n, l, 0)

\* The sequential permutation, `for k in 0..n { if k < rk { x.swap(k, rk) } }`:
\* the turns k = lo .. hi-1 in order (split in halves to keep the
\* evaluation shallow).
RECURSIVE swap_loop(_, _, _, _)
swap_loop(x, lo, hi, l) ==
  IF hi - lo = 1
  THEN LET rk == bitreverse(lo, l)
       IN IF lo < rk
          THEN [x EXCEPT ![lo + 1] = x[rk + 1], ![rk + 1] = x[lo + 1]]
          ELSE x
  ELSE LET half == swap_loop(x, lo, (lo + hi) \div 2, l)
       IN IF half = x THEN swap_loop(x, (lo + hi) \div 2, hi, l)
          ELSE swap_loop(half, (lo + hi) \div 2, hi, l)

\* The parallel permutation of the indices ks: *dst.add(k) = *src.add(rk).
gather(src, dst, ks, l) ==
  [i \in 1..Len(dst) |->
     IF (i - 1) \in ks THEN src[bitreverse(i - 1, l) + 1] ELSE dst[i]]

\* The values w takes in `for j in 0..m`, w = w * w_m after each turn:
\* w_m^0 .. w_m^(m-1), m a power of two.
RECURSIVE w_powers(_, _)
w_powers(w_m, m) ==
  IF m = 1 THEN << One >>
  ELSE LET h == w_powers(w_m, m \div 2)
           half == bmul(h[m \div 2], w_m)
       IN h \o [j \in 1..(m \div 2) |-> bmul(h[j], half)]

\* The butterflies of the groups gs of one stage: for the group starting
\* at k and j in 0..m, x[k+j] = u + v and x[k+j+m] = u - v with
\* u = x[k+j], v = x[k+j+m] * w.
butterflies(x, gs, m, w_m) ==
  LET tw == w_powers(w_m, m)
  IN [i \in 1..Len(x) |->
        LET p == i - 1
            j == p % (2 * m)
        IN IF (p \div (2 * m)) \notin gs THEN x[i]
           ELSE IF j < m
           THEN badd(x[i], bmul(x[i + m], tw[j + 1]))
           ELSE bsub(x[i - m], bmul(x[i], tw[j - m + 1]))]

\* The indices one group of a stage reads and writes: idx1 = k + j and
\* idx2 = k + j + m for j in 0..m, with k = group * 2 * m.
group_indices(group, m) ==
  LET k == group * 2 * m
  IN { k + j : j \in 0..(m - 1) } \cup { k + j + m : j \in 0..(m - 1) }

\* let w_m = bpow(root.0, (n / (2 * m)) as u64)
stage_root(root, n, m) == bpow(root, n \div (2 * m))

\* What a call that panics hands back in place of a polynomial.
Panic == << << "panic" >> >>

\* The turns left of `for _ in 0..log_n` on the sequential branch, from
\* the stage m on: `while k < n` steps k by 2 * m and indexes x[k + j + m]
\* with bounds checked, so that a last group that does not fit in x
\* panics; a stage that fits runs its n / (2 * m) groups.
RECURSIVE stages_from(_, _, _, _)
stages_from(x, root, m, left) ==
  IF left = 0 THEN x
  ELSE IF Len(x) % (2 * m) # 0 THEN Panic
  ELSE stages_from(butterflies(x, 0..(Len(x) \div (2 * m) - 1), m,
                               stage_root(root, Len(x), m)),
                   root, 2 * m, left - 1)

\* The transform on the sequential branches alone (one compute thread):
\* the early return for n = 1, the swap loop, then the log_n stages
\* m = 1, 2, 4, .. each over every group. ilog2 panics on n = 0. A
\* length that is no power of two panics in every build: at
\* debug_assert!(n.is_power_of_two()) with debug assertions, in the first
\* stage whose 2 * m does not divide n without them.
bp_ntt_sequential(bp, root) ==
  IF Len(bp) = 1 THEN << bp[1] >>
  ELSE IF Len(bp) = 0 THEN Panic
  ELSE stages_from(swap_loop(bp, 0, Len(bp), ilog2(Len(bp))), root, 1,
                   ilog2(Len(bp)))

\* let n_inv = Belt(len).inv(); every coefficient times n_inv.
scaled(x) ==
  LET n_inv == binv(Belt(Len(x)))
  IN [i \in 1..Len(x) |-> bmul(x[i], n_inv)]

\* --- one call of bp_ntt_parallel as a process
\* A rayon parallel loop over the items 0..items-1, which the calling
\* thread waits for: the items are split into one contiguous block per
\* pool thread at work on the loop (no more blocks than items, nor than
\* MaxParallel), each block is worked through in order, the blocks in
\* any interleaving.
par_blocks(items, threads) ==
  LET pool == IF threads < MaxParallel THEN threads ELSE MaxParallel
  IN IF pool < items THEN pool ELSE items
block_size(items, threads) ==
  (items + par_blocks(items, threads) - 1) \div par_blocks(items, threads)
block_end(b, items, threads) ==
  IF b * block_size(items, threads) < items
  THEN b * block_size(items, threads) ELSE items
par_start(items, threads) ==
  [b \in 1..par_blocks(items, threads) |-> (b - 1) * block_size(items, threads)]
par_ready(r, b) ==
  /\ b \in DOMAIN r.next
  /\ r.next[b] < block_end(b, r.items, r.threads)
par_finished(r) == \A b \in DOMAIN r.next : ~ par_ready(r, b)

\* bp_ntt_parallel(bp, root) entered with get_mining_threads() = threads;
\* pass and orig say which transform of a round trip this is.
ntt_call(bp, root, threads, pass, orig) ==
  [pc |-> "entry", bp |-> bp, root |-> root, threads |-> threads,
   pass |-> pass, orig |-> orig, x |-> << >>, x_permuted |-> << >>,
   m |-> 0, left |-> 0, n_inv |-> Zero, items |-> 0, next |-> << >>]

\* From the entry to the end of the permutation, or to its parallel loop:
\* the early return for n = 1, the copy into x, the choice of the branch.
\* ilog2 panics on n = 0, par_chunks_mut on a chunk size of zero.
ntt_enter(r) ==
  LET n == Len(r.bp)
      log_n == ilog2(n)
  IN IF n = 1 THEN [r EXCEPT !.pc = "done", !.x = << r.bp[1] >>]
     ELSE IF n = 0 THEN [r EXCEPT !.pc = "panicked"]
     ELSE IF n >= 32 /\ r.threads > 1
     THEN IF n < 256
          THEN [r EXCEPT !.pc = "gather", !.x = r.bp, !.left = log_n,
                         !.x_permuted = ZeroPoly(n), !.items = n,
                         !.next = par_start(n, r.threads)]
          ELSE IF n \div r.threads = 0
          THEN [r EXCEPT !.pc = "panicked", !.x = r.bp, !.left = log_n,
                         !.x_permuted = ZeroPoly(n)]
          ELSE LET chunks == (n + (n \div r.threads) - 1) \div (n \div r.threads)
               IN [r EXCEPT !.pc = "gather_chunks", !.x = r.bp, !.left = log_n,
                            !.x_permuted = ZeroPoly(n), !.items = chunks,
                            !.next = par_start(chunks, r.threads)]
     ELSE [r EXCEPT !.pc = "stage", !.x = swap_loop(r.bp, 0, n, log_n),
                    !.left = log_n, !.m = 1]

\* One index of (0..n).into_par_iter().for_each(..), taken by block b.
gather_index(r, b) ==
  [r EXCEPT !.x_permuted = gather(r.x, @, {r.next[b]}, ilog2(Len(r.x))),
            !.next[b] = @ + 1]

\* One chunk of x_permuted.par_chunks_mut(n / threads), taken by block b.
gather_chunk(r, b) ==
  LET n == Len(r.x)
      size == n \div r.threads
      chunk_start == r.next[b] * size
      chunk_stop == IF chunk_start + size < n THEN chunk_start + size ELSE n
  IN [r EXCEPT !.x_permuted = gather(r.x, @, chunk_start..(chunk_stop - 1),
                                     ilog2(n)),
               !.next[b] = @ + 1]

\* x = x_permuted; let mut m = 1;
permuted(r) ==
  [r EXCEPT !.pc = "stage", !.x = r.x_permuted, !.m = 1, !.items = 0,
            !.next = << >>]

\* One turn of `for _ in 0..log_n` up to its loop over the groups: run
\* in place when m < 8 or with one thread, handed to rayon otherwise;
\* with no turn left x is returned. The loop `while k < n` in place indexes
\* x[k + j + m] with bounds checked: a last group that does not fit in
\* x panics.
ntt_stage(r) ==
  LET n == Len(r.x)
  IN IF r.left = 0 THEN [r EXCEPT !.pc = "done"]
     ELSE IF r.m >= 8 /\ r.threads > 1
     THEN [r EXCEPT !.pc = "groups", !.items = n \div (2 * r.m),
                    !.next = par_start(n \div (2 * r.m), r.threads)]
     ELSE IF n % (2 * r.m) # 0 THEN [r EXCEPT !.pc = "panicked"]
     ELSE [r EXCEPT !.x = butterflies(r.x, 0..(n \div (2 * r.m) - 1), r.m,
                                      stage_root(r.root, n, r.m)),
                    !.m = 2 * r.m, !.left = r.left - 1]

\* One group of (0..num_groups).into_par_iter().for_each(..), by block b.
run_group(r, b) ==
  [r EXCEPT !.x = butterflies(r.x, {r.next[b]}, r.m,
                              stage_root(r.root, Len(r.x), r.m)),
            !.next[b] = @ + 1]

\* m *= 2;
groups_joined(r) ==
  [r EXCEPT !.pc = "stage", !.m = 2 * r.m, !.left = r.left - 1,
            !.items = 0, !.next = << >>]

\* A call of bp_ntt_parallel made by another function, one step at a
\* time: thread b of the pool can take an item of the loop the call
\* stands in; what the calling thread does between the loops, and the
\* end of a loop it waits for, is listed under b = 1.
ntt_ready(r, b) ==
  \/ r.pc \in {"entry", "stage"} /\ b = 1
  \/ /\ r.pc \in {"gather", "gather_chunks", "groups"}
     /\ par_ready(r, b) \/ (b = 1 /\ par_finished(r))

ntt_step(r, b) ==
  CASE r.pc = "entry" -> ntt_enter(r)
    [] r.pc = "gather" ->
         IF par_finished(r) THEN permuted(r) ELSE gather_index(r, b)
    [] r.pc = "gather_chunks" ->
         IF par_finished(r) THEN permuted(r) ELSE gather_chunk(r, b)
    [] r.pc = "stage" -> ntt_stage(r)
    [] r.pc = "groups" ->
         IF par_finished(r) THEN groups_joined(r) ELSE run_group(r, b)

\* The polynomial of the module's own test, (0..n).map(Belt), and one whose
\* coefficients sit just below the prime.
Ramp(n) == [i \in 1..n |-> Belt(i - 1)]
Steep(n) == [i \in 1..n |-> bsub(Zero, Belt(i * i))]

\* The calls explored: lengths 1, 2 and 4 (sequential whatever the thread
\* count), length 32 (parallel permutation by index, parallel stages from
\* m = 8) and length 256 (parallel permutation by chunks, with fewer
\* threads than coefficients and with more), each with the root
\* ordered_root gives for the length.
NttInputs ==
  { [bp |-> p, threads |-> t] :
      p \in { << Belt(7) >>, Ramp(2), Ramp(4), Ramp(32), Steep(32) },
      t \in {1, 2, 3} }
  \cup { [bp |-> Ramp(256), threads |-> t] : t \in {2, 257} }

\* What the jet is handed when its sample is no polynomial: an atom.
NotBPoly == << << "atom" >> >>

\* Samples of bp_ntt_parallel_jet outside the transform's domain: no
\* polynomial at all, lengths 0, 3 and 6, and length 24, which gets as
\* far as a parallel stage (m = 8) when there are two threads.
NttBadInputs ==
  { [bp |-> p, threads |-> t] :
      p \in { NotBPoly, << >>, Ramp(3), Ramp(6) }, t \in {1, 2} }
  \cup { [bp |-> Ramp(24), threads |-> 2] }

InitTransform ==
  /\ DriverParked
  /\ jets = Idle
  /\ hot = Idle
  /\ sizing = Idle
  /\ fft = Idle
  /\ cache = Idle
  /\ \E i \in NttInputs \cup NttBadInputs :
        ntt = [ntt_call(i.bp, ordered_root(next_power_of_two(Len(i.bp))),
                        i.threads, "forward", i.bp) EXCEPT !.pc = "jet"]

\* bp_ntt_parallel_jet up to its call of bp_ntt_parallel: jet_err() for
\* a sample that is no polynomial, no look at the length.
NttJet ==
  /\ ntt.pc = "jet"
  /\ ntt' = [ntt EXCEPT !.pc = IF ntt.bp = NotBPoly THEN "jet_err" ELSE "entry"]
  /\ UNCHANGED << mining_vars, hot, jets, sizing, fft, cache >>

\* The entry of bp_ntt_parallel; debug_assert!(n.is_power_of_two())
\* panics in a build with debug assertions and is absent otherwise.
NttEnter ==
  /\ ntt.pc = "entry"
  /\ \/ ntt' = ntt_enter(ntt)
     \/ /\ Len(ntt.bp) # 1
        /\ ~ is_power_of_two(Len(ntt.bp))
        /\ ntt' = [ntt EXCEPT !.pc = "panicked"]
  /\ UNCHANGED << mining_vars, hot, jets, sizing, fft, cache >>

GatherIndex(b) ==
  /\ ntt.pc = "gather"
  /\ par_ready(ntt, b)
  /\ ntt' = gather_index(ntt, b)
  /\ UNCHANGED << mining_vars, hot, jets, sizing, fft, cache >>

GatherChunk(b) ==
  /\ ntt.pc = "gather_chunks"
  /\ par_ready(ntt, b)
  /\ ntt' = gather_chunk(ntt, b)
  /\ UNCHANGED << mining_vars, hot, jets, sizing, fft, cache >>

Permuted ==
  /\ ntt.pc \in {"gather", "gather_chunks"}
  /\ par_finished(ntt)
  /\ ntt' = permuted(ntt)
  /\ UNCHANGED << mining_vars, hot, jets, sizing, fft, cache >>

NttStage ==
  /\ ntt.pc = "stage"
  /\ ntt' = ntt_stage(ntt)
  /\ UNCHANGED << mining_vars, hot, jets, sizing, fft, cache >>

RunGroup(b) ==
  /\ ntt.pc = "groups"
  /\ par_ready(ntt, b)
  /\ ntt' = run_group(ntt, b)
  /\ UNCHANGED << mining_vars, hot, jets, sizing, fft, cache >>

GroupsJoined ==
  /\ ntt.pc = "groups"
  /\ par_finished(ntt)
  /\ ntt' = groups_joined(ntt)
  /\ UNCHANGED << mining_vars, hot, jets, sizing, fft, cache >>

\* The transform run again on its own output with the inverse root:
\* bp_ntt_parallel(&c_fft, &root_inv) with root_inv = root.inv().
Invert ==
  /\ ntt.pc = "done"
  /\ ntt.pass = "forward"
  /\ ntt' = ntt_call(ntt.x, binv(ntt.root), ntt.threads, "inverse", ntt.bp)
  /\ UNCHANGED << mining_vars, hot, jets, sizing, fft, cache >>

\* let n_inv = Belt(padded_len as u64).inv(); and the loop
\* c_result.par_iter_mut().for_each(..) handed to the pool.
Scale ==
  /\ ntt.pc = "done"
  /\ ntt.pass = "inverse"
  /\ ntt' = [ntt EXCEPT !.pc = "scale", !.n_inv = binv(Belt(Len(ntt.x))),
                        !.items = Len(ntt.x),
                        !.next = par_start(Len(ntt.x), ntt.threads)]
  /\ UNCHANGED << mining_vars, hot, jets, sizing, fft, cache >>

\* One coefficient of the loop, *x = *x * n_inv, taken by block b.
ScaleItem(b) ==
  /\ ntt.pc = "scale"
  /\ par_ready(ntt, b)
  /\ ntt' = [ntt EXCEPT !.x[ntt.next[b] + 1] = bmul(@, ntt.n_inv),
                        !.next[b] = @ + 1]
  /\ UNCHANGED << mining_vars, hot, jets, sizing, fft, cache >>

\* Every coefficient scaled: for_each returns to the calling thread.
Scaled ==
  /\ ntt.pc = "scale"
  /\ par_finished(ntt)
  /\ ntt' = [ntt EXCEPT !.pc = "scaled", !.items = 0, !.next = << >>]
  /\ UNCHANGED << mining_vars, hot, jets, sizing, fft, cache >>

NextTransform ==
  \/ NttJet
  \/ NttEnter
  \/ \E b \in DOMAIN ntt.next : GatherIndex(b)
  \/ \E b \in DOMAIN ntt.next : GatherChunk(b)
  \/ Permuted
  \/ NttStage
  \/ \E b \in DOMAIN ntt.next : RunGroup(b)
  \/ GroupsJoined
  \/ Invert
  \/ Scale
  \/ \E b \in DOMAIN ntt.next : ScaleItem(b)
  \/ Scaled

SpecTransform == InitTransform /\ [][NextTransform]_vars

\* --- bpmul_fft_parallel as a process
\* vec![Belt(0); padded_len] with the operand copied to its front.
padded(a, len) == [i \in 1..len |-> IF i <= Len(a) THEN a[i] ELSE Zero]

\* bpmul_fft_parallel(a, b, result) entered with result.len() = n.
fft_call(a, b, n, threads) ==
  [pc |-> "entry", a |-> a, b |-> b, n |-> n, threads |-> threads,
   padded_len |-> 0, fa |-> Idle, fb |-> Idle, a_fft |-> << >>,
   b_fft |-> << >>, c_fft |-> << >>, inv |-> Idle, c_result |-> << >>,
   n_inv |-> Zero, result |-> << >>, items |-> 0, next |-> << >>]

\* The products of the indices ks: *c = *a * *b.
pointwise(r, ks) ==
  [i \in 1..Len(r.c_fft) |->
     IF (i - 1) \in ks THEN bmul(r.a_fft[i], r.b_fft[i]) ELSE r.c_fft[i]]

\* let root_inv = order.ordered_root()?.inv(); and the call
\* bp_ntt_parallel(&c_fft, &root_inv) about to be entered.
inverse_call(r) ==
  [r EXCEPT !.pc = "inverse", !.items = 0, !.next = << >>,
            !.inv = ntt_call(r.c_fft, binv(ordered_root(r.padded_len)),
                             r.threads, "inverse", r.c_fft)]

\* After the join of the two transforms: a panic of either side goes on
\* in the caller; otherwise c_fft is allocated and the branch of the
\* pointwise product chosen; the sequential branch runs in place,
\* par_chunks_mut panics on a chunk size of zero.
fft_joined(r) ==
  LET len == r.padded_len
      c0 == [r EXCEPT !.a_fft = r.fa.x, !.b_fft = r.fb.x,
                      !.c_fft = ZeroPoly(len)]
  IN IF r.fa.pc = "panicked" \/ r.fb.pc = "panicked"
     THEN [r EXCEPT !.pc = "panicked"]
     ELSE IF len >= 32 /\ r.threads > 1
     THEN IF len \div r.threads = 0
          THEN [c0 EXCEPT !.pc = "panicked"]
          ELSE LET chunks == (len + (len \div r.threads) - 1)
                               \div (len \div r.threads)
               IN [c0 EXCEPT !.pc = "chunks", !.items = chunks,
                             !.next = par_start(chunks, r.threads)]
     ELSE inverse_call([c0 EXCEPT !.c_fft = pointwise(c0, 0..(len - 1))])

\* One chunk of c_fft.par_chunks_mut(padded_len / threads) zipped with
\* the chunks of a_fft and b_fft, taken by block b.
mul_chunk(r, b) ==
  LET size == r.padded_len \div r.threads
      chunk_start == r.next[b] * size
      chunk_stop == IF chunk_start + size < r.padded_len
                    THEN chunk_start + size ELSE r.padded_len
  IN [r EXCEPT !.c_fft = pointwise(r, chunk_start..(chunk_stop - 1)),
               !.next[b] = @ + 1]

\* The calls explored, [a, b, get_mining_threads()], the result slice
\* the caller hands in being of length len(a) + len(b) - 1: the pair of
\* the module's test and two constants, with one thread, a few, and more
\* than 32; and two pairs padded to 32, one filling the padded length
\* and one not: with one thread, with three (which do not divide 32) and
\* with more threads than coefficients.
FftCalls ==
  { << a, b, t >> :
      a \in { << Belt(1), Belt(2), Belt(3) >> }, b \in { << Belt(4), Belt(5) >> },
      t \in {1, 2, 3, 33} }
  \cup { << << Belt(3) >>, << Belt(5) >>, t >> : t \in {1, 33} }
  \cup { << Ramp(17), Ramp(16), t >> : t \in {1, 33} }
  \cup { << Steep(9), Ramp(9), t >> : t \in {1, 3} }

InitFftMul ==
  /\ DriverParked
  /\ jets = Idle
  /\ hot = Idle
  /\ sizing = Idle
  /\ ntt = Idle
  /\ cache = Idle
  /\ \E c \in FftCalls :
        fft = fft_call(c[1], c[2], Len(c[1]) + Len(c[2]) - 1, c[3])

\* let padded_len = n.next_power_of_two(); a_padded, b_padded; and the
\* two closures of rayon::join, each about to enter bp_fft_parallel:
\* bp_ntt_parallel with the root of the padded length.
FftEnter ==
  /\ fft.pc = "entry"
  /\ LET len == next_power_of_two(fft.n)
         forward(p) == ntt_call(padded(p, len), ordered_root(len),
                                fft.threads, "forward", padded(p, len))
     IN fft' = [fft EXCEPT !.pc = "join", !.padded_len = len,
                           !.fa = forward(fft.a), !.fb = forward(fft.b)]
  /\ UNCHANGED << mining_vars, hot, jets, sizing, ntt, cache >>

\* One step of one side of rayon::join(|| bp_fft_parallel(&a_padded),
\* || bp_fft_parallel(&b_padded)): side is fa or fb, b the pool thread.
ForwardFft(side, b) ==
  /\ fft.pc = "join"
  /\ ntt_ready(fft[side], b)
  /\ fft' = [fft EXCEPT ![side] = ntt_step(@, b)]
  /\ UNCHANGED << mining_vars, hot, jets, sizing, ntt, cache >>

\* rayon::join returns when both closures have ended.
FftJoined ==
  /\ fft.pc = "join"
  /\ fft.fa.pc \in {"done", "panicked"}
  /\ fft.fb.pc \in {"done", "panicked"}
  /\ fft' = fft_joined(fft)
  /\ UNCHANGED << mining_vars, hot, jets, sizing, ntt, cache >>

MulChunk(b) ==
  /\ fft.pc = "chunks"
  /\ par_ready(fft, b)
  /\ fft' = mul_chunk(fft, b)
  /\ UNCHANGED << mining_vars, hot, jets, sizing, ntt, cache >>

ChunksJoined ==
  /\ fft.pc = "chunks"
  /\ par_finished(fft)
  /\ fft' = inverse_call(fft)
  /\ UNCHANGED << mining_vars, hot, jets, sizing, ntt, cache >>

\* One step of let mut c_result = bp_ntt_parallel(&c_fft, &root_inv),
\* by pool thread b.
InverseFft(b) ==
  /\ fft.pc = "inverse"
  /\ ntt_ready(fft.inv, b)
  /\ fft' = [fft EXCEPT !.inv = ntt_step(@, b)]
  /\ UNCHANGED << mining_vars, hot, jets, sizing, ntt, cache >>

\* The inverse transform has returned: let n_inv = Belt(padded_len).inv()
\* and the loop c_result.par_iter_mut().for_each(..) handed to the pool.
InverseReturned ==
  /\ fft.pc = "inverse"
  /\ fft.inv.pc \in {"done", "panicked"}
  /\ fft' = IF fft.inv.pc = "panicked" THEN [fft EXCEPT !.pc = "panicked"]
            ELSE [fft EXCEPT !.pc = "scale", !.c_result = fft.inv.x,
                             !.n_inv = binv(Belt(fft.padded_len)),
                             !.items = fft.padded_len,
                             !.next = par_start(fft.padded_len, fft.threads)]
  /\ UNCHANGED << mining_vars, hot, jets, sizing, ntt, cache >>

\* One coefficient of the loop, *x = *x * n_inv, taken by block b.
ScaleCoeff(b) ==
  /\ fft.pc = "scale"
  /\ par_ready(fft, b)
  /\ fft' = [fft EXCEPT !.c_result[fft.next[b] + 1] = bmul(@, fft.n_inv),
                        !.next[b] = @ + 1]
  /\ UNCHANGED << mining_vars, hot, jets, sizing, ntt, cache >>

\* for_each returns, then result.copy_from_slice(&c_result[..n]).
ScaleCopy ==
  /\ fft.pc = "scale"
  /\ par_finished(fft)
  /\ fft' = [fft EXCEPT !.pc = "done", !.items = 0, !.next = << >>,
                        !.result = SubSeq(fft.c_result, 1, fft.n)]
  /\ UNCHANGED << mining_vars, hot, jets, sizing, ntt, cache >>

NextFftMul ==
  \/ FftEnter
  \/ \E side \in {"fa", "fb"}, b \in 1..MaxParallel : ForwardFft(side, b)
  \/ FftJoined
  \/ \E b \in DOMAIN fft.next : MulChunk(b)
  \/ ChunksJoined
  \/ \E b \in 1..MaxParallel : InverseFft(b)
  \/ InverseReturned
  \/ \E b \in DOMAIN fft.next : ScaleCoeff(b)
  \/ ScaleCopy

SpecFftMul == InitFftMul /\ [][NextFftMul]_vars

\* bpmul, the schoolbook product: c[k] the sum of a[i] * b[k - i] over
\* the indices lo..hi of a, summed by halves.
RECURSIVE schoolbook_sum(_, _, _, _, _)
schoolbook_sum(a, b, k, lo, hi) ==
  IF lo = hi
  THEN IF k - lo + 1 \in 1..Len(b) THEN bmul(a[lo], b[k - lo + 1]) ELSE Zero
  ELSE badd(schoolbook_sum(a, b, k, lo, (lo + hi) \div 2),
            schoolbook_sum(a, b, k, ((lo + hi) \div 2) + 1, hi))

bpmul(a, b) ==
  [k \in 1..(Len(a) + Len(b) - 1) |-> schoolbook_sum(a, b, k, 1, Len(a))]

\* --- the domain cache
\* Lookups explored in one behaviour.
MaxLookups == 5

\* Option<&DomainData>.
None == {}
Some(data) == {data}

\* The powers pushed by `for i in 0..size`: offset^0 .. offset^(size-1),
\* built by halves.
RECURSIVE offset_powers(_, _)
offset_powers(offset_belt, size) ==
  IF size = 0 THEN << >>
  ELSE IF size = 1 THEN << One >>
  ELSE LET k == (size + 1) \div 2
           h == offset_powers(offset_belt, k)
           step == bmul(h[k], offset_belt)
       IN h \o [j \in 1..(size - k) |-> bmul(h[j], step)]

\* The DomainData precompute_domain builds: the twiddle vectors are
\* clones of the powers.
DomainData(size, offset) ==
  LET powers == offset_powers(Belt(offset), size)
  IN [powers |-> powers, twiddle_factors |-> powers, inv_twiddles |-> powers]

\* precompute_domain(size, offset) on the map domains: a key already
\* there is skipped.
precompute_domain(domains, size, offset) ==
  IF << size, offset >> \in DOMAIN domains THEN domains
  ELSE [key \in DOMAIN domains \cup {<< size, offset >>} |->
          IF key = << size, offset >> THEN DomainData(size, offset)
          ELSE domains[key]]

\* A ladder that starts one rung late.
SizePows_from_six == 6..12

\* for size_pow in 5..=12
SizePows == 5..12

RECURSIVE shl(_, _)
shl(n, k) == IF k = 0 THEN n ELSE shl(2 * n, k - 1)

RECURSIVE precompute_ladder(_, _)
precompute_ladder(domains, size_pows) ==
  IF size_pows = {} THEN domains
  ELSE LET size_pow == CHOOSE q \in size_pows : \A o \in size_pows : q <= o
       IN precompute_ladder(precompute_domain(domains, shl(1, size_pow), 1),
                            size_pows \ {size_pow})

\* DomainCache::new(); returned holds what the last get returned.
NoLookup == [key |-> << >>, data |-> None]
DomainCache_new ==
  [pc |-> "ready", domains |-> precompute_ladder(<< >>, SizePows),
   hits |-> 0, misses |-> 0, bp_shift_calls |-> 0, bp_intercosate_calls |-> 0,
   returned |-> NoLookup]

\* A get that counts a hit as a miss as well.
get_counting_both(c, size, offset) ==
  LET key == << size, offset >>
  IN IF key \in DOMAIN c.domains
     THEN [c EXCEPT !.hits = @ + 1, !.misses = @ + 1,
                    !.returned = [key |-> key, data |-> Some(c.domains[key])]]
     ELSE [c EXCEPT !.misses = @ + 1,
                    !.returned = [key |-> key, data |-> None]]

\* A get that empties the twiddle factors of the entry it hits.
get_clearing_twiddles(c, size, offset) ==
  LET key == << size, offset >>
  IN IF key \in DOMAIN c.domains
     THEN [c EXCEPT !.hits = @ + 1, !.domains[key].twiddle_factors = << >>,
                    !.returned = [key |-> key, data |-> Some(c.domains[key])]]
     ELSE [c EXCEPT !.misses = @ + 1,
                    !.returned = [key |-> key, data |-> None]]

\* DomainCache::get(size, offset).
get(c, size, offset) ==
  LET key == << size, offset >>
  IN IF key \in DOMAIN c.domains
     THEN [c EXCEPT !.hits = @ + 1,
                    !.returned = [key |-> key, data |-> Some(c.domains[key])]]
     ELSE [c EXCEPT !.misses = @ + 1,
                    !.returned = [key |-> key, data |-> None]]

\* cache.domains.get(&cache_key), the lookup bp_intercosate_cached_jet
\* makes under the lock: the map is read directly, past DomainCache::get
\* and its counters.
domains_get(c, key) ==
  [c EXCEPT !.returned =
     [key |-> key,
      data |-> IF key \in DOMAIN c.domains THEN Some(c.domains[key])
               ELSE None]]

\* The keys looked up: the sizes of the ladder with offset 1, and the
\* keys new() does not precompute (a size off the ladder, the test's
\* (37, 2), a ladder size with another offset).
LookupKeys ==
  { << shl(1, k), 1 >> : k \in SizePows }
    \cup { << 16, 1 >>, << 37, 2 >>, << 64, 2 >> }

InitCache ==
  /\ DriverParked
  /\ jets = Idle
  /\ hot = Idle
  /\ sizing = Idle
  /\ ntt = Idle
  /\ fft = Idle
  /\ cache = DomainCache_new

Get(key) ==
  /\ cache.pc = "ready"
  /\ cache.hits + cache.misses < MaxLookups
  /\ cache' = get(cache, key[1], key[2])
  /\ UNCHANGED << mining_vars, hot, jets, sizing, ntt, fft >>

NextCache == \E key \in LookupKeys : Get(key)

SpecCache == InitCache /\ [][NextCache]_vars

\* --- the cached jets bp_shift_cached_jet and bp_intercosate_cached_jet
\* Jet calls started in one behaviour, by the workers together.
MaxJetCalls == 2

\* The threads that call the jets; NoWorker: the mutex is free.
JetWorkers == {1, 2}
NoWorker == 0

\* jet_err(): the typed failure a jet returns to its caller.
JetErr == << "jet_err" >>

\* bp_shift(p, c): the coset shift, res[i] = p[i] * c^i.
bp_shift(p, c) == [i \in 1..Len(p) |-> bmul(p[i], bpow(c, i - 1))]

\* A cached read that returns the powers and drops the coefficients.
shift_cached_powers_only(p, powers) == [i \in 1..Len(p) |-> powers[i]]

\* res_poly[i] = bp_poly.0[i] * powers[i] for i in 0..poly_len.
shift_cached(p, powers) == [i \in 1..Len(p) |-> bmul(p[i], powers[i])]

\* The tail both branches of bp_intercosate share: the inverse transform
\* with the root handed in, the scaling by 1/n, the shift by c^{-1}.
intercosate_with(values, root, offset) ==
  bp_shift(scaled(bp_ntt_sequential(values, root)), binv(Belt(offset)))

\* A noun: an atom, a cell of two nouns, or the atom that holds the words
\* of a polynomial. NoNoun: the axis asked for does not exist.
Atom(n) == << "atom", n >>
Cell(head, tail) == << "cell", head, tail >>
NoNoun == << >>

\* A bpoly as a noun: the cell [len dat].
BPolyNoun(p) == Cell(Atom(Len(p)), << "words", p >>)

\* slot(noun, axis): axis 1 is the noun, axis 2a the head and 2a + 1 the
\* tail of the noun at axis a; no noun under an atom.
RECURSIVE slot(_, _)
slot(noun, axis) ==
  IF axis = 1
  THEN noun
  ELSE LET up == slot(noun, axis \div 2)
       IN IF up = NoNoun \/ up[1] # "cell" THEN NoNoun ELSE up[2 + (axis % 2)]

\* as_belt(), as_u64(): the noun is an atom of one word.
is_belt(noun) == noun # NoNoun /\ noun[1] = "atom"

\* BPolySlice::try_from: the noun is a cell [len dat] with len words.
is_bpoly(noun) ==
  /\ noun # NoNoun
  /\ noun[1] = "cell"
  /\ noun[2][1] = "atom"
  /\ noun[3][1] = "words"
  /\ noun[2][2] = Len(noun[3][2])

NoSample == [ok |-> FALSE, poly |-> << >>, other |-> << >>, offset |-> 0,
             order |-> 0]

\* bp_shift_cached_jet: bp at axis 2 of the sample, c at axis 3.
shift_sample(sam) ==
  LET bp == slot(sam, 2)
      c == slot(sam, 3)
  IN IF is_bpoly(bp) /\ is_belt(c)
     THEN [NoSample EXCEPT !.ok = TRUE, !.poly = bp[3][2], !.offset = c[2]]
     ELSE NoSample

\* bp_intercosate_cached_jet: offset at axis 2 of the sample, order at
\* axis 3, values at axis 4, the head of the noun at axis 2; then
\* as_belt of the offset, as_u64 of the order, try_from of the values.
intercosate_sample(sam) ==
  LET offset == slot(sam, 2)
      order == slot(sam, 3)
      values == slot(sam, 4)
  IN IF offset = NoNoun \/ order = NoNoun \/ values = NoNoun
     THEN NoSample
     ELSE IF ~ is_belt(offset)
     THEN NoSample
     ELSE IF ~ is_belt(order)
     THEN NoSample
     ELSE IF ~ is_bpoly(values)
     THEN NoSample
     ELSE [NoSample EXCEPT !.ok = TRUE, !.offset = offset[2],
                           !.order = order[2], !.poly = values[3][2]]

\* bp_hadamard_parallel_jet: bp at axis 2 of the sample, bq at axis 3.
hadamard_sample(sam) ==
  LET bp == slot(sam, 2)
      bq == slot(sam, 3)
  IN IF is_bpoly(bp) /\ is_bpoly(bq)
     THEN [NoSample EXCEPT !.ok = TRUE, !.poly = bp[3][2], !.other = bq[3][2]]
     ELSE NoSample

\* The sample of bp-intercosate as its caller lays it out: the triple
\* [offset order values].
IntercosateArgs(offset, order, values) ==
  Cell(Atom(offset), Cell(Atom(order), BPolyNoun(values)))

\* The samples handed to the jets. bp-shift: [bp c], and a sample whose
\* bp is an atom. bp-intercosate: the triple [offset order values], well
\* formed and with a bad order or length; the pair [offset order]; and
\* [[values 0] order], a noun that has an axis 4. bp-hadamard: [bp bq].
JetSamples ==
  { [op |-> "bp_shift", sam |-> Cell(BPolyNoun(Steep(32)), Atom(1))],
    [op |-> "bp_shift", sam |-> Cell(BPolyNoun(Ramp(4)), Atom(3))],
    [op |-> "bp_shift", sam |-> Cell(Atom(7), Atom(1))],
    [op |-> "bp_intercosate", sam |-> IntercosateArgs(1, 32, Ramp(32))],
    [op |-> "bp_intercosate", sam |-> IntercosateArgs(3, 4, Ramp(4))],
    [op |-> "bp_intercosate", sam |-> IntercosateArgs(1, 6, Ramp(2))],
    [op |-> "bp_intercosate", sam |-> IntercosateArgs(1, 0, << >>)],
    [op |-> "bp_intercosate", sam |-> IntercosateArgs(1, 4, Ramp(2))],
    [op |-> "bp_intercosate", sam |-> Cell(Atom(1), Atom(32))],
    [op |-> "bp_intercosate",
     sam |-> Cell(Cell(BPolyNoun(Ramp(32)), Atom(0)), Atom(32))],
    [op |-> "bp_hadamard",
     sam |-> Cell(BPolyNoun(Ramp(4)), BPolyNoun(Steep(4)))],
    [op |-> "bp_hadamard",
     sam |-> Cell(BPolyNoun(Ramp(2)), BPolyNoun(Ramp(3)))] }

\* A call: the sample, and the locals the jet reads out of it.
NoCall ==
  [pc |-> "idle", op |-> "none", sam |-> NoNoun, poly |-> << >>,
   other |-> << >>, offset |-> 0, order |-> 0, path |-> "none",
   result |-> << >>]

InitJets ==
  /\ DriverParked
  /\ sizing = Idle
  /\ ntt = Idle
  /\ fft = Idle
  /\ hot = Idle
  /\ cache = DomainCache_new
  /\ jets = [pc |-> "ready", lock |-> NoWorker, started |-> 0,
             calls |-> [w \in JetWorkers |-> NoCall]]

\* A worker's prover calls a jet with the sample c.sam.
JetCall(w, c) ==
  /\ jets.pc = "ready"
  /\ jets.calls[w].pc \in {"idle", "returned"}
  /\ jets.started < MaxJetCalls
  /\ jets' = [jets EXCEPT !.started = @ + 1,
                          !.calls[w] = [NoCall EXCEPT !.pc = "entered",
                                          !.op = c.op, !.sam = c.sam]]
  /\ UNCHANGED << mining_vars, hot, sizing, ntt, fft, cache >>

\* The call of worker w after the jet has read the sample s.
Extracted(w, s, pc_after) ==
  [jets EXCEPT !.calls[w].pc = pc_after, !.calls[w].poly = s.poly,
               !.calls[w].other = s.other, !.calls[w].offset = s.offset,
               !.calls[w].order = s.order]

\* The call of worker w returning jet_err.
Failed(w) ==
  [jets EXCEPT !.calls[w].pc = "returned", !.calls[w].result = JetErr]

\* A bp-shift jet that goes to its lookup without counting the call.
ShiftCount_uncounted(w) ==
  /\ jets.pc = "ready"
  /\ jets.calls[w].pc = "entered"
  /\ jets.calls[w].op = "bp_shift"
  /\ LET s == shift_sample(jets.calls[w].sam)
     IN IF ~ s.ok
        THEN jets' = Failed(w)
        ELSE /\ jets.lock = NoWorker
             /\ jets' = Extracted(w, s, "lookup")
  /\ UNCHANGED << mining_vars, hot, sizing, ntt, fft, cache >>

\* bp_shift_cached_jet: the sample read, jet_err on a sample of another
\* shape; then the block that locks DOMAIN_CACHE, counts the call and
\* unlocks.
ShiftCount(w) ==
  /\ jets.pc = "ready"
  /\ jets.calls[w].pc = "entered"
  /\ jets.calls[w].op = "bp_shift"
  /\ LET s == shift_sample(jets.calls[w].sam)
     IN IF ~ s.ok
        THEN /\ jets' = Failed(w)
             /\ cache' = cache
        ELSE /\ jets.lock = NoWorker
             /\ cache' = [cache EXCEPT !.bp_shift_calls = @ + 1]
             /\ jets' = Extracted(w, s, "lookup")
  /\ UNCHANGED << mining_vars, hot, sizing, ntt, fft >>

\* let mut cache = DOMAIN_CACHE.lock().unwrap(); cache.get(poly_len, offset):
\* on Some the guard lives on through the branch, on None it is dropped.
ShiftLookup(w) ==
  /\ jets.pc = "ready"
  /\ jets.calls[w].pc = "lookup"
  /\ jets.calls[w].op = "bp_shift"
  /\ jets.lock = NoWorker
  /\ cache' = get(cache, Len(jets.calls[w].poly), jets.calls[w].offset)
  /\ jets' = IF cache'.returned.data # None
             THEN [jets EXCEPT !.lock = w, !.calls[w].pc = "multiply",
                               !.calls[w].path = "cached"]
             ELSE [jets EXCEPT !.calls[w].pc = "multiply",
                               !.calls[w].path = "fallback"]
  /\ UNCHANGED << mining_vars, hot, sizing, ntt, fft >>

\* The multiplication of either branch up to Ok(res_cell); the cached
\* branch gives the guard up as it returns.
ShiftMultiply(w) ==
  /\ jets.pc = "ready"
  /\ jets.calls[w].pc = "multiply"
  /\ jets.calls[w].op = "bp_shift"
  /\ LET call == jets.calls[w]
         key == << Len(call.poly), call.offset >>
     IN jets' = IF call.path = "cached"
                THEN [jets EXCEPT !.lock = NoWorker, !.calls[w].pc = "returned",
                        !.calls[w].result =
                          shift_cached(call.poly, cache.domains[key].powers)]
                ELSE [jets EXCEPT !.calls[w].pc = "returned",
                        !.calls[w].result =
                          bp_shift(call.poly, Belt(call.offset))]
  /\ UNCHANGED << mining_vars, hot, sizing, ntt, fft, cache >>

\* A bp-intercosate jet that counts the call before it reads and
\* validates its sample.
IntercosateCount_before_validation(w) ==
  /\ jets.pc = "ready"
  /\ jets.calls[w].pc = "entered"
  /\ jets.calls[w].op = "bp_intercosate"
  /\ jets.lock = NoWorker
  /\ cache' = [cache EXCEPT !.bp_intercosate_calls = @ + 1]
  /\ LET s == intercosate_sample(jets.calls[w].sam)
     IN jets' = IF ~ s.ok \/ ~ is_power_of_two(s.order)
                     \/ Len(s.poly) # s.order
                THEN Failed(w)
                ELSE Extracted(w, s, "lookup")
  /\ UNCHANGED << mining_vars, hot, sizing, ntt, fft >>

\* bp_intercosate_cached_jet: the sample read, the validation of order
\* and length, then the block that locks DOMAIN_CACHE, counts the call
\* and unlocks. Axis 4 lies under axis 2: a sample whose offset is an atom
\* has no values, one that has values has a cell for its offset, so that
\* no sample gets past the reading and the rest of the jet, the lookup
\* and the inverse transform, is never run.
IntercosateCount(w) ==
  /\ jets.pc = "ready"
  /\ jets.calls[w].pc = "entered"
  /\ jets.calls[w].op = "bp_intercosate"
  /\ LET s == intercosate_sample(jets.calls[w].sam)
     IN IF ~ s.ok \/ ~ is_power_of_two(s.order) \/ Len(s.poly) # s.order
        THEN /\ jets' = Failed(w)
             /\ cache' = cache
        ELSE /\ jets.lock = NoWorker
             /\ cache' = [cache EXCEPT !.bp_intercosate_calls = @ + 1]
             /\ jets' = Extracted(w, s, "lookup")
  /\ UNCHANGED << mining_vars, hot, sizing, ntt, fft >>

\* bp_hadamard_parallel_jet: the sample read, jet_err on a sample of
\* another shape; assert_eq! on the two lengths, then *r = *a * *b at
\* every index by bp_hadamard, the branch of a length of at most 32,
\* which every sample explored has.
Hadamard(w) ==
  /\ jets.pc = "ready"
  /\ jets.calls[w].pc = "entered"
  /\ jets.calls[w].op = "bp_hadamard"
  /\ LET s == hadamard_sample(jets.calls[w].sam)
     IN jets' = IF ~ s.ok
                THEN Failed(w)
                ELSE IF Len(s.poly) # Len(s.other)
                THEN Extracted(w, s, "panicked")
                ELSE [Extracted(w, s, "returned") EXCEPT
                        !.calls[w].result =
                          [i \in 1..Len(s.poly) |->
                             bmul(s.poly[i], s.other[i])]]
  /\ UNCHANGED << mining_vars, hot, sizing, ntt, fft, cache >>

NextJets ==
  \E w \in JetWorkers :
    \/ \E c \in JetSamples : JetCall(w, c)
    \/ ShiftCount(w)
    \/ ShiftLookup(w)
    \/ ShiftMultiply(w)
    \/ IntercosateCount(w)
    \/ Hadamard(w)

SpecJets == InitJets /\ [][NextJets]_vars

\* ------------------------------------------------------------------ claims
InAttempt(t) == pc[t] \in {"poke", "effects", "mined"}
ReceivedBy(t) == { i \in DOMAIN received : received[i][2] = t }
TasksOfSlot(id) == { t \in Tasks : t <= spawned /\ worker_id[t] = id }

\* C1: a 'mine' effect that arrives while the channel holds MAX_MINING_QUEUE
\* candidates is taken by the driver at once (the arm is enabled, it does
\* not wait for room), the arriving candidate is the one dropped, and the
\* channel keeps the very same 32 older candidates.
C1_FullQueueDropsNewest ==
  /\ [](arrived < MaxArrivals => ENABLED NextEffect("mine"))
  /\ [][ (arrived' = arrived + 1 /\ Len(queue) = MAX_MINING_QUEUE)
           => /\ queue' = queue
              /\ dropped' = dropped \cup {arrived'}
              /\ Len(queue') = MAX_MINING_QUEUE ]_vars

C1_Witness ==
  /\ Len(queue) = MAX_MINING_QUEUE
  /\ arrived \in dropped
  /\ \A i \in 1..MAX_MINING_QUEUE : queue[i] = i

\* C2: the channel never holds fewer than 0 or more than MAX_MINING_QUEUE
\* candidates, whatever the arrivals and the dequeues.
C2_QueueWithinCapacity ==
  Len(queue) >= 0 /\ Len(queue) <= MAX_MINING_QUEUE

C2_Witness ==
  /\ Len(queue) = MAX_MINING_QUEUE
  /\ arrived > MAX_MINING_QUEUE
  /\ received = << >>

\* C3: no candidate is received twice, by two workers or by the same one;
\* a candidate in flight at a worker is one that worker received, and it
\* is in flight nowhere else nor still in the channel.
C3_DeliveredToExactlyOneWorker ==
  /\ \A i, j \in DOMAIN received :
        received[i][1] = received[j][1] => i = j
  /\ \A t \in Tasks : candidate[t] # NoCandidate =>
        /\ \E i \in DOMAIN received : received[i] = << candidate[t], t >>
        /\ \A u \in Tasks \ {t} : candidate[u] # candidate[t]
        /\ \A i \in DOMAIN queue : queue[i] # candidate[t]

C3_Witness ==
  /\ Len(received) = 2
  /\ received[1][2] # received[2][2]
  /\ candidate[received[1][2]] = received[1][1]
  /\ candidate[received[2][2]] = received[2][1]

\* C4: when the driver joins a task that returned its slot id, exactly one
\* new task is spawned, with that slot id, and every other task, the
\* receiver mutex and the channel are left as they were.
C4_ReturnedSlotRestartedOnce ==
  [][ \A t \in Tasks : (pc[t] = "returned" /\ pc'[t] = "joined") =>
        /\ spawned' = spawned + 1
        /\ { u \in Tasks : pc[u] = "unspawned" /\ pc'[u] # "unspawned" } = {spawned'}
        /\ pc'[spawned'] = "init"
        /\ worker_id'[spawned'] = worker_id[t]
        /\ \A u \in Tasks \ {t, spawned'} :
              pc'[u] = pc[u] /\ worker_id'[u] = worker_id[u]
        /\ UNCHANGED << queue, rx_lock, candidate, resources, effects, mined >>
    ]_vars

C4_Witness ==
  \E t, u, v \in Tasks :
    /\ pc[t] = "joined" /\ resources[t] = NoKernel
    /\ u = spawned /\ u > worker_count /\ worker_id[u] = worker_id[t]
    /\ pc[u] = "init"
    /\ v \notin {t, u} /\ pc[v] = "poke"

\* C5: when the driver joins a task that panicked, a new task with the
\* panicked task's slot id is spawned, as for a task that returned.
C5_PanickedSlotRestarted ==
  [][ \A t \in Tasks : (Panicked(t) /\ pc'[t] = "joined") =>
        /\ spawned' = spawned + 1
        /\ pc'[spawned'] = "init"
        /\ worker_id'[spawned'] = worker_id[t] ]_vars

\* C6: no step taken during an attempt (the kernel poke coming back, the
\* walk over its effects, the answer to a 'mined' poke) ends the worker:
\* the worker stays in the attempt or goes on to wait for its next
\* candidate.
C6_AttemptFailureKeepsWorker ==
  [][ \A t \in Tasks : InAttempt(t) => (InAttempt(t)' \/ pc'[t] = "lock") ]_vars

\* C7: a kernel being poked was constructed by the task poking it, and no
\* two tasks have a poke in flight on the same kernel.
C7_KernelPokedByOwnerOnly ==
  /\ \A t \in Tasks : pc[t] = "poke" =>
        /\ resources[t] # NoKernel
        /\ built_by[resources[t]] = t
  /\ \A t, u \in Tasks :
        (t # u /\ pc[t] = "poke" /\ pc[u] = "poke") => resources[t] # resources[u]

C7_Witness ==
  \E t, u \in Tasks :
    /\ t # u
    /\ pc[t] = "poke" /\ pc[u] = "poke"
    /\ resources[t] # resources[u]

\* C8: a worker takes a candidate from the channel only when it has no
\* attempt in flight, a candidate in flight is given up only by its own
\* attempt ending, and the arrival of a candidate changes no worker.
C8_NoDequeueDuringAttempt ==
  [][ /\ \A t \in Tasks :
           candidate'[t] # candidate[t] =>
              \/ candidate[t] = NoCandidate /\ pc[t] = "recv"
              \/ candidate'[t] = NoCandidate /\ InAttempt(t)
      /\ received' # received =>
           /\ Len(received') = Len(received) + 1
           /\ LET t == received'[Len(received')][2]
              IN candidate[t] = NoCandidate /\ ~InAttempt(t)
      /\ arrived' # arrived => UNCHANGED task_vars ]_vars

C8_Witness ==
  \E t \in Tasks :
    /\ Cardinality(ReceivedBy(t)) = 2
    /\ pc[t] = "poke"
    /\ queue # << >>

\* C9: a worker whose 'mined' poke has not been answered is not blocked,
\* it can take its next step.
C9_FireAndForget ==
  \A t \in Tasks : mined[t] = "sent" => ENABLED WorkerStep(t)

\* What the code does where C9 has the worker move on: the 'mined' poke
\* is awaited. Until the node has answered the worker takes no step, and
\* it reaches the channel again (mutex or receive) only with no 'mined'
\* poke outstanding.
MinedPokeIsAwaited ==
  \A t \in Tasks :
    /\ mined[t] # "none" => pc[t] = "mined"
    /\ mined[t] = "sent" => ~ ENABLED WorkerStep(t)
    /\ pc[t] \in {"lock", "recv"} => mined[t] = "none"

\* A worker held by its unanswered 'mined' poke while a candidate waits
\* in the channel and the receiver is free.
HeldWithCandidateQueued ==
  \E t \in Tasks :
    /\ pc[t] = "mined" /\ mined[t] = "sent"
    /\ queue # << >>
    /\ rx_lock = NoTask

\* C10: a construction that fails ends in the return of the slot id, no
\* task panics inside its construction; a task whose construction failed
\* has returned after one call of initialize_mining_resources, holds no
\* kernel and has received no candidate; and the constructions tried for
\* a slot never exceed one per task spawned for it (the first spawn and
\* one per joined termination).
C10_InitFailureReturnsWithoutRetry ==
  /\ \A t \in Tasks : ~ (pc[t] = "hot" /\ hot.callers[t] = "panicked")
  /\ \A t \in Tasks : pc[t] = "returned" =>
        /\ attempts[t] = 1
        /\ resources[t] = NoKernel
        /\ candidate[t] = NoCandidate
        /\ ReceivedBy(t) = {}
  /\ \A t \in Tasks : attempts[t] <= 1
  /\ \A t \in Tasks : t <= spawned =>
        Cardinality(TasksOfSlot(worker_id[t])) <=
          1 + Cardinality({ u \in TasksOfSlot(worker_id[t]) : pc[u] = "joined" })

\* C11: with a construction that fails every time, every task spawned
\* runs its construction, returns and is joined, and the restarts go on
\* until the bound of the exploration is met: there is no ceiling short of
\* it and no state in which a returned task has to wait for its restart.
C11_FailingSlotRestartedWithoutCeiling ==
  /\ <>(spawned = MaxTasks)
  /\ \A t \in Tasks :
        [](pc[t] = "init" => <>(pc[t] \in {"returned", "joined"}))
  /\ \A t \in Tasks :
        []((pc[t] = "returned" /\ spawned < MaxTasks) => ENABLED JoinNext(t))
  /\ \A t \in Tasks :
        []((pc[t] = "returned" /\ spawned < MaxTasks)
              => <>(pc[t] = "joined" \/ spawned = MaxTasks))

\* C12: once a worker task has ended, by returning or by panicking, the
\* driver's loop goes on: it takes the next 'mine' effect, and it joins
\* every task that has ended and is not yet joined (a returned one while
\* the bound on spawned tasks leaves room for its restart).
C12_DriverSurvivesWorkerEnd ==
  (\E t \in Tasks : Finished(t) \/ pc[t] = "joined") =>
     /\ arrived < MaxArrivals => ENABLED NextEffect("mine")
     /\ \A u \in Tasks :
           (u <= spawned /\ Finished(u)
              /\ (pc[u] = "returned" => spawned < MaxTasks))
           => ENABLED JoinNext(u)

C12_Witness ==
  \E t, u \in Tasks :
    /\ t # u
    /\ pc[t] = "joined" /\ resources[t] # NoKernel
    /\ pc[u] = "panicked"
    /\ arrived < MaxArrivals
    /\ queue # << >>

\* C13: the worker count computed from a budget is 1 for budgets up to 4,
\* 2 for 5 to 8, 4 for 9 to 16 and floor(budget / 4) above 16, and it is
\* never smaller than the count computed from the budget one below.
C13_WorkerCountByBudget ==
  sizing.pc \in {"workers", "sized", "panicked"} =>
    LET n == sizing.total_threads
        w == sizing.worker_count
    IN /\ w = IF n <= 4 THEN 1
              ELSE IF n <= 8 THEN 2
              ELSE IF n <= 16 THEN 4
              ELSE n \div 4
       /\ n > 0 => calculate_optimal_workers(n - 1) <= w

\* What holds of every call of the transform that returns on a length
\* that is a power of two: its output is the output of the sequential
\* branches on the same input and root, and a forward and an inverse call
\* followed by the scaling give back the input of the forward call. On
\* another length the sequential branches panic, whatever the build.
ReturnedTransformIsSequential ==
  (ntt.pc = "done" /\ is_power_of_two(Len(ntt.bp))) =>
    ntt.x = bp_ntt_sequential(ntt.bp, ntt.root)
SequentialPanicsOffPowersOfTwo ==
  (ntt.pc \notin {"idle", "jet", "jet_err"}
     /\ ~ is_power_of_two(Len(ntt.bp))) =>
    bp_ntt_sequential(ntt.bp, ntt.root) = Panic
ReturnedRoundTripIsIdentity ==
  (ntt.pc = "scaled" /\ is_power_of_two(Len(ntt.orig))) => ntt.x = ntt.orig

\* C14: with more than one compute thread bp_ntt_parallel produces an
\* output, and it is the output of the sequential branches, whatever the
\* length, the root, the thread count and the interleaving of the tasks.
C14_ParallelMatchesSequential ==
  (ntt.threads > 1 /\ is_power_of_two(Len(ntt.orig))) =>
    /\ ntt.pc # "panicked"
    /\ ReturnedTransformIsSequential

\* C15: the transform with a primitive n-th root, then the transform with
\* the inverse root, then the scaling by the inverse of n, are carried
\* through for every polynomial and end with the polynomial they started
\* from.
C15_RoundTripRecoversInput ==
  is_power_of_two(Len(ntt.orig)) =>
    /\ ntt.pc # "panicked"
    /\ ReturnedRoundTripIsIdentity

\* What holds of every call of bpmul_fft_parallel that gets there: the
\* pointwise step leaves c_fft[i] = a_fft[i] * b_fft[i] at every index,
\* and the result returned is the schoolbook product.
PointwiseProductWhenDone ==
  fft.pc \in {"inverse", "scale", "done"} =>
    /\ Len(fft.c_fft) = fft.padded_len
    /\ \A i \in 1..fft.padded_len :
          fft.c_fft[i] = bmul(fft.a_fft[i], fft.b_fft[i])
PanickedInPointwiseStep ==
  /\ fft.pc = "panicked"
  /\ fft.fa.pc = "done"
  /\ fft.fb.pc = "done"
  /\ fft.c_fft = ZeroPoly(fft.padded_len)
ReturnedProductIsSchoolbook ==
  fft.pc = "done" => fft.result = bpmul(fft.a, fft.b)

\* C16: bpmul_fft_parallel returns the schoolbook product for every pair
\* of non-empty operands; [1, 2, 3] times [4, 5] gives [4, 13, 22, 15].
C16_FftProductIsSchoolbook ==
  /\ fft.pc # "panicked"
  /\ ReturnedProductIsSchoolbook
  /\ (fft.pc = "done" /\ fft.a = << Belt(1), Belt(2), Belt(3) >>
                       /\ fft.b = << Belt(4), Belt(5) >>)
        => fft.result = << Belt(4), Belt(13), Belt(22), Belt(15) >>

\* C17: whatever the thread count and the padded length, the pointwise
\* step runs to its end and leaves c_fft[i] = a_fft[i] * b_fft[i] at
\* every index.
C17_PointwiseStepCompletes ==
  /\ ~PanickedInPointwiseStep
  /\ PointwiseProductWhenDone

\* C18: a key looked up for the first time counts one miss and is cached
\* from then on: it is among the entries after the lookup, and the next
\* lookup of the same key counts a hit and no miss.
C18_MissedKeyIsCachedAfterwards ==
  [][\A key \in LookupKeys :
       (cache' # cache /\ cache'.returned.key = key) =>
         /\ key \in DOMAIN cache'.domains
         /\ (cache.returned.key = key =>
               /\ cache'.hits = cache.hits + 1
               /\ cache'.misses = cache.misses)]_vars

\* C19: a lookup of a cached key returns the entry stored for it, the
\* same data as the lookup before it when that was of the same key,
\* counts one hit and no miss, and leaves the entries as they were.
C19_HitReturnsStoredEntry ==
  [][\A key \in LookupKeys :
       (cache' # cache /\ cache'.returned.key = key
          /\ key \in DOMAIN cache.domains) =>
         /\ cache'.returned.data = Some(cache.domains[key])
         /\ (cache.returned.key = key =>
               cache'.returned.data = cache.returned.data)
         /\ cache'.hits = cache.hits + 1
         /\ cache'.misses = cache.misses
         /\ cache'.domains = cache.domains]_vars

C19_Witness ==
  /\ cache.pc = "ready"
  /\ cache.hits = 2
  /\ cache.misses = 1
  /\ cache.returned.key = << 64, 1 >>
  /\ cache.returned.data = Some(cache.domains[<< 64, 1 >>])

\* C20: the cache as constructed, before any lookup, has both counters
\* at zero and an entry (2^k, 1) with 2^k powers for k = 5..12; whenever
\* the first lookup made is of such a key it is a hit, and a lookup of
\* such a key never comes back empty.
C20_FreshCacheHoldsLadder ==
  cache.pc = "ready" =>
    /\ cache.returned = NoLookup => cache.hits = 0 /\ cache.misses = 0
    /\ \A k \in 5..12 :
          LET key == << 2 ^ k, 1 >>
          IN /\ cache.returned = NoLookup =>
                  /\ key \in DOMAIN cache.domains
                  /\ Len(cache.domains[key].powers) = 2 ^ k
                  /\ get(cache, key[1], key[2]).hits = 1
                  /\ get(cache, key[1], key[2]).misses = 0
             /\ cache.returned.key = key =>
                  /\ cache.returned.data # None
                  /\ cache.hits >= 1
                  /\ cache.hits + cache.misses = 1 => cache.misses = 0

C20_Witness ==
  /\ cache.pc = "ready"
  /\ cache.hits = 1
  /\ cache.misses = 0
  /\ cache.returned.key = << 4096, 1 >>
  /\ cache.returned.data # None
  /\ Len(cache.domains[<< 4096, 1 >>].powers) = 4096

\* The sample is the triple [offset order values] of bp-intercosate, the
\* order a power of two and the number of the values.
WellFormedTriple(sam) ==
  /\ is_belt(slot(sam, 2))
  /\ is_belt(slot(sam, 6))
  /\ is_bpoly(slot(sam, 7))
  /\ \E k \in 0..30 : slot(sam, 6)[2] = shl(1, k)
  /\ Len(slot(sam, 7)[3][2]) = slot(sam, 6)[2]

\* C21: a call of bp-intercosate with an offset, a power-of-two order and
\* as many values returns the polynomial the direct path computes, the
\* inverse transform with the inverse of the ordered root of the order,
\* scaled and shifted, whether or not the key was cached.
C21_CachedIntercosateEqualsDirect ==
  \A w \in JetWorkers :
    (jets.pc = "ready" /\ jets.calls[w].pc = "returned"
       /\ jets.calls[w].op = "bp_intercosate"
       /\ WellFormedTriple(jets.calls[w].sam)) =>
      jets.calls[w].result =
        intercosate_with(slot(jets.calls[w].sam, 7)[3][2],
                         binv(ordered_root(slot(jets.calls[w].sam, 6)[2])),
                         slot(jets.calls[w].sam, 2)[2])

\* The powers precompute_domain builds for the offsets 3 and 5 give the
\* product of the direct shift on every sample polynomial.
PrecomputedPowersShiftAlike ==
  \A p \in {Steep(32), Ramp(32), Ramp(4), Steep(4), Ramp(2)} :
    \A c \in {3, 5} :
      shift_cached(p, DomainData(Len(p), c).powers) = bp_shift(p, Belt(c))

\* C22: a call of bp-shift on a polynomial and an offset returns
\* p[i] * c^i at every index, on the cached branch as on the fallback;
\* and the powers precompute_domain builds for a key with another offset
\* give the same product.
C22_CachedShiftEqualsDirect ==
  /\ \A w \in JetWorkers :
       (jets.pc = "ready" /\ jets.calls[w].pc = "returned"
          /\ jets.calls[w].op = "bp_shift"
          /\ shift_sample(jets.calls[w].sam).ok) =>
         jets.calls[w].result =
           bp_shift(jets.calls[w].poly, Belt(jets.calls[w].offset))
  /\ PrecomputedPowersShiftAlike

C22_Witness ==
  \E w \in JetWorkers :
    /\ jets.pc = "ready"
    /\ jets.calls[w].pc = "returned"
    /\ jets.calls[w].op = "bp_shift"
    /\ jets.calls[w].path = "cached"
    /\ jets.calls[w].poly = Steep(32)
    /\ jets.calls[w].result = Steep(32)
    /\ cache.hits = 1

\* C23: no step of the cache or of a jet removes an entry or changes
\* the contents of one.
C23_EntriesNeverChange ==
  [][cache.pc = "ready" =>
       \A key \in DOMAIN cache.domains :
         /\ key \in DOMAIN cache'.domains
         /\ cache'.domains[key] = cache.domains[key]]_vars

C23_Witness ==
  /\ jets.pc = "ready"
  /\ cache.hits = 1
  /\ cache.misses = 1
  /\ cache.bp_shift_calls = 2
  /\ \A k \in 5..12 : Len(cache.domains[<< 2 ^ k, 1 >>].powers) = 2 ^ k
  /\ \A w \in JetWorkers : jets.calls[w].pc = "returned"

\* The cached branch of bp-shift runs under the cache mutex: no two
\* workers multiply by cached powers at the same time.
CachedMultiplyIsExclusive ==
  \A w, v \in JetWorkers :
    (jets.pc = "ready" /\ w # v
       /\ jets.calls[w].pc = "multiply" /\ jets.calls[w].path = "cached"
       /\ jets.calls[w].op = "bp_shift") =>
      ~ (jets.calls[v].pc = "multiply" /\ jets.calls[v].path = "cached"
           /\ jets.calls[v].op = "bp_shift")

\* C24: a worker multiplying coefficients by cached powers in bp-shift
\* does not hold the cache mutex, so that another worker can be in the
\* same phase.
C24_CachedReadsOutsideLock ==
  \A w \in JetWorkers :
    (jets.pc = "ready" /\ jets.calls[w].pc = "multiply"
       /\ jets.calls[w].op = "bp_shift" /\ jets.calls[w].path = "cached") =>
      jets.lock # w

\* C25: a call of bp-hadamard with polynomials of different lengths
\* comes back to its caller as jet_err: it does not panic, and it does
\* not return a product cut to the shorter operand.
C25_HadamardLengthMismatchIsTypedFailure ==
  \A w \in JetWorkers :
    (jets.pc = "ready" /\ jets.calls[w].op = "bp_hadamard"
       /\ Len(jets.calls[w].poly) # Len(jets.calls[w].other)) =>
      /\ jets.calls[w].pc # "panicked"
      /\ jets.calls[w].pc = "returned" => jets.calls[w].result = JetErr

\* C26: a call of the bp-ntt jet with a polynomial whose length is no
\* power of two, zero included, does not panic and hands no polynomial
\* back: it ends in jet_err.
C26_NttBadLengthIsTypedFailure ==
  (ntt.orig # NotBPoly /\ ~ is_power_of_two(Len(ntt.orig))) =>
    /\ ntt.pc # "panicked"
    /\ ntt.pc # "done"

\* C27: at most one worker is inside the dequeue step, that worker is the
\* holder of the receiver mutex and nobody else holds it; any other worker
\* between attempts stands at the mutex and is not let in while it is held.
C27_DequeueIsMutuallyExclusive ==
  /\ \A t, u \in Tasks : (pc[t] = "recv" /\ pc[u] = "recv") => t = u
  /\ \A t \in Tasks : pc[t] = "recv" <=> rx_lock = t
  /\ \A t \in Tasks :
        (t <= spawned /\ ~ Finished(t) /\ pc[t] \notin {"joined", "init", "hot"}
           /\ ~ InAttempt(t) /\ rx_lock # t) =>
          /\ pc[t] = "lock"
          /\ rx_lock # NoTask => ~ ENABLED LockRx(t)

C27_Witness ==
  \E t, u \in Tasks :
    /\ t # u
    /\ pc[t] = "recv" /\ rx_lock = t
    /\ pc[u] = "lock"
    /\ queue # << >>

\* C28: the candidates leave the channel in the order the driver's
\* try_send accepted them: the dequeues so far are increasing in arrival,
\* and everything still queued was accepted after everything dequeued and
\* is itself in arrival order.
C28_DequeuedInArrivalOrder ==
  /\ \A i, j \in DOMAIN received :
        i < j => received[i][1] < received[j][1]
  /\ \A i, j \in DOMAIN queue : i < j => queue[i] < queue[j]
  /\ \A i \in DOMAIN received, j \in DOMAIN queue : received[i][1] < queue[j]

\* Two candidates dequeued in order by two workers, the attempt on the
\* later one over while the attempt on the earlier one still runs.
C28_Witness ==
  /\ Len(received) = 2
  /\ received[1][2] # received[2][2]
  /\ pc[received[1][2]] = "poke"
  /\ candidate[received[1][2]] = received[1][1]
  /\ pc[received[2][2]] = "lock"
  /\ candidate[received[2][2]] = NoCandidate

\* C29: a task calls initialize_mining_resources at most once; a task that
\* stands at the channel, has dequeued or is in an attempt holds the kernel
\* it constructed itself; a task's kernel is assigned once, at its start
\* and before any dequeue, and never replaced; and a kernel is constructed
\* only by a task just spawned for its slot, so a slot gets a new one only
\* through a restart.
C29_ContextBuiltOncePerTask ==
  /\ [](\A t \in Tasks :
          /\ attempts[t] <= 1
          /\ (pc[t] \in {"lock", "recv"} \/ InAttempt(t) \/ ReceivedBy(t) # {}) =>
                /\ attempts[t] = 1
                /\ resources[t] # NoKernel
                /\ built_by[resources[t]] = t
          /\ \A u \in Tasks :
                (u # t /\ resources[t] # NoKernel) => resources[u] # resources[t])
  /\ [][ /\ \A t \in Tasks :
              resources'[t] # resources[t] =>
                /\ resources[t] = NoKernel
                /\ pc[t] = "hot" /\ attempts[t] = 1
                /\ ReceivedBy(t) = {}
                /\ resources'[t] = kernels + 1
         /\ kernels' # kernels =>
              /\ kernels' = kernels + 1
              /\ \E t \in Tasks :
                   /\ pc[t] = "hot" /\ resources'[t] = kernels'
                   /\ \A u \in TasksOfSlot(worker_id[t]) \ {t} : pc[u] = "joined" ]_vars

\* One task has taken two candidates with its one kernel while another
\* slot, whose first task returned, runs on the kernel of its restart.
C29_Witness ==
  \E t, u, v \in Tasks :
    /\ Cardinality(ReceivedBy(t)) = 2
    /\ attempts[t] = 1 /\ built_by[resources[t]] = t
    /\ pc[u] = "joined" /\ resources[u] = NoKernel
    /\ v # u /\ worker_id[v] = worker_id[u]
    /\ resources[v] # NoKernel /\ built_by[resources[v]] = v

\* What holds of the stages of every call on a length n = 2^k, k >= 1, that
\* gets to them: a stage in progress has half-size m = 2^(k - left), so the
\* half-sizes run 1, 2, 4, ... with one stage each; the call returns with
\* no stage left and m = n, after exactly k stages; m moves only by
\* doubling, at the end of a stage whose parallel groups have all been
\* run; and a butterfly is written only within the stage in progress.
StageCountsAgree ==
  LET n == Len(ntt.bp)
  IN (is_power_of_two(n) /\ n >= 2) =>
       /\ ntt.pc \in {"stage", "groups"} =>
             /\ ntt.m >= 1
             /\ ntt.m * shl(1, ntt.left) = n
             /\ ntt.pc = "groups" => ntt.left >= 1
       /\ ntt.pc = "done" => ntt.left = 0 /\ ntt.m = n
StageBarrier ==
  (ntt.pc \in {"stage", "groups"} /\ is_power_of_two(Len(ntt.bp))) =>
    /\ ntt'.m # ntt.m =>
          /\ ntt'.m = 2 * ntt.m
          /\ ntt'.left = ntt.left - 1
          /\ ntt.pc = "groups" =>
                /\ par_finished(ntt)
                /\ \A b \in DOMAIN ntt.next :
                      ntt.next[b] = block_end(b, ntt.items, ntt.threads)
          /\ ntt.pc = "stage" =>
                ntt'.x = butterflies(ntt.x, 0..(Len(ntt.x) \div (2 * ntt.m) - 1),
                                     ntt.m, stage_root(ntt.root, Len(ntt.x), ntt.m))
    /\ (ntt'.x # ntt.x /\ ntt.pc = "groups") =>
          /\ ntt'.m = ntt.m /\ ntt'.pc = "groups"
          /\ \E b \in DOMAIN ntt.next :
                /\ par_ready(ntt, b)
                /\ ntt'.x = butterflies(ntt.x, {ntt.next[b]}, ntt.m,
                                        stage_root(ntt.root, Len(ntt.x), ntt.m))
StagesInOrderWhereRun == []StageCountsAgree /\ [][StageBarrier]_vars

\* C30: a call of bp_ntt_parallel on a length n = 2^k, k >= 1, does not end
\* in a panic but runs its k stages with half-sizes 1, 2, ..., n/2 in that
\* order and returns, and no butterfly of a stage is run before all groups
\* of the stage before are done.
C30_StagesInOrderThenReturn ==
  /\ []((is_power_of_two(Len(ntt.bp)) /\ Len(ntt.bp) >= 2) =>
          /\ ntt.pc # "panicked"
          /\ StageCountsAgree)
  /\ [][StageBarrier]_vars

\* One lookup counted: from the cache c to the cache d one of the two
\* counters has gone up by one and the other has stayed.
CountedOnce(c, d) ==
  \/ d.hits = c.hits + 1 /\ d.misses = c.misses
  \/ d.hits = c.hits /\ d.misses = c.misses + 1

\* What holds of the lookups the jets get to, those of bp-shift: the step
\* of a call out of its lookup counts once.
LookupStepsCounted ==
  [][\A w \in JetWorkers :
       (jets.pc = "ready" /\ jets.calls[w].pc = "lookup"
          /\ jets'.calls[w].pc # "lookup") => CountedOnce(cache, cache')]_vars

\* Two lookups of bp-shift made, one on each branch: the key of one call
\* was cached, the key of the other was not.
BothBranchesLookedUp ==
  \E w, v \in JetWorkers :
    /\ jets.pc = "ready"
    /\ jets.calls[w].pc = "multiply" /\ jets.calls[w].path = "cached"
    /\ jets.calls[v].pc = "multiply" /\ jets.calls[v].path = "fallback"
    /\ cache.hits = 1 /\ cache.misses = 1

MalformedTriple(sam) ==
  /\ is_belt(slot(sam, 2))
  /\ is_belt(slot(sam, 6))
  /\ is_bpoly(slot(sam, 7))
  /\ \/ \A k \in 0..30 : slot(sam, 6)[2] # shl(1, k)
     \/ Len(slot(sam, 7)[3][2]) # slot(sam, 6)[2]

\* C32: a call of bp-intercosate whose order is zero or no power of two,
\* or differs from the number of values, returns jet_err in its first
\* step, with the four counters and the entries of the cache as they
\* were, and such a call never reaches the lookup.
C32_MalformedIntercosateRejectedFirst ==
  /\ [](\A w \in JetWorkers :
          (jets.pc = "ready" /\ jets.calls[w].op = "bp_intercosate"
             /\ MalformedTriple(jets.calls[w].sam)) =>
            /\ jets.calls[w].pc \in {"entered", "returned"}
            /\ jets.calls[w].pc = "returned" =>
                  jets.calls[w].result = JetErr /\ jets.calls[w].path = "none")
  /\ [][\A w \in JetWorkers :
          (jets.pc = "ready" /\ jets.calls[w].op = "bp_intercosate"
             /\ jets.calls[w].pc = "entered"
             /\ jets'.calls[w] # jets.calls[w]
             /\ MalformedTriple(jets.calls[w].sam)) =>
            /\ jets'.calls[w].result = JetErr
            /\ cache'.hits = cache.hits /\ cache'.misses = cache.misses
            /\ cache'.bp_shift_calls = cache.bp_shift_calls
            /\ cache'.bp_intercosate_calls = cache.bp_intercosate_calls
            /\ cache'.domains = cache.domains]_vars

\* An order of zero and a length that differs from a power-of-two order,
\* both turned away with the counters still at zero.
C32_Witness ==
  \E w, v \in JetWorkers :
    /\ jets.pc = "ready"
    /\ jets.calls[w].op = "bp_intercosate"
    /\ jets.calls[w].sam = IntercosateArgs(1, 0, << >>)
    /\ jets.calls[w].pc = "returned" /\ jets.calls[w].result = JetErr
    /\ jets.calls[v].op = "bp_intercosate"
    /\ jets.calls[v].sam = IntercosateArgs(1, 4, Ramp(2))
    /\ jets.calls[v].pc = "returned" /\ jets.calls[v].result = JetErr
    /\ cache.bp_intercosate_calls = 0 /\ cache.hits + cache.misses = 0

\* C38: the lookups counted never exceed the bp-shift calls counted, and
\* the two agree whenever no bp-shift call stands between its counter
\* block and its lookup.
C38_LookupsWithinShiftCalls ==
  jets.pc = "ready" =>
    /\ cache.hits + cache.misses <= cache.bp_shift_calls
    /\ (\A w \in JetWorkers :
          ~ (jets.calls[w].op = "bp_shift" /\ jets.calls[w].pc = "lookup")) =>
         cache.hits + cache.misses = cache.bp_shift_calls

\* One call past its lookup, the other counted and not yet looked up.
C38_Witness ==
  \E w, v \in JetWorkers :
    /\ jets.pc = "ready"
    /\ jets.calls[w].op = "bp_shift" /\ jets.calls[w].pc = "lookup"
    /\ jets.calls[v].op = "bp_shift" /\ jets.calls[v].pc = "multiply"
    /\ cache.bp_shift_calls = 2
    /\ cache.hits + cache.misses = 1

\* For a budget of one thread or more the pool has a worker and the share
\* of each worker is computed.
PositiveBudgetHasWorker ==
  (sizing.pc \in {"workers", "sized", "panicked"} /\ sizing.total_threads >= 1) =>
    sizing.worker_count >= 1 /\ sizing.pc # "panicked"

\* C33: whatever the budget, 0 included, the worker count is at least 1
\* and total_threads / worker_count is computed, not a division by zero.
C33_AtLeastOneWorker ==
  sizing.pc \in {"workers", "sized", "panicked"} =>
    /\ sizing.worker_count >= 1
    /\ sizing.pc # "panicked"

\* C34: every candidate that has arrived is in exactly one place: dropped
\* by try_send, waiting in the channel, or dequeued by a worker; so the
\* arrivals are the drops plus the queue plus the dequeues.
C34_CandidatesConserved ==
  /\ arrived = Cardinality(dropped) + Len(queue) + Len(received)
  /\ \A c \in 1..arrived :
        LET d == c \in dropped
            q == \E i \in DOMAIN queue : queue[i] = c
            r == \E i \in DOMAIN received : received[i][1] = c
        IN (d \/ q \/ r) /\ ~ (d /\ q) /\ ~ (d /\ r) /\ ~ (q /\ r)
  /\ \A i, j \in DOMAIN queue : queue[i] = queue[j] => i = j

C34_Witness ==
  /\ dropped # {}
  /\ Len(queue) = MAX_MINING_QUEUE - 1
  /\ Len(received) = 1
  /\ arrived = MAX_MINING_QUEUE + 1

\* C36: a worker in an attempt does not hold the receiver mutex, and the
\* step that takes a candidate leaves the mutex free; so two workers can
\* be in attempts on different candidates at once (C36_Witness).
C36_NoLockDuringAttempt ==
  /\ [](\A t \in Tasks : InAttempt(t) => rx_lock # t)
  /\ [][received' # received => rx_lock' = NoTask]_vars

C36_Witness ==
  \E t, u \in Tasks :
    /\ t # u
    /\ pc[t] = "poke" /\ pc[u] = "poke"
    /\ candidate[t] # NoCandidate /\ candidate[u] # NoCandidate
    /\ candidate[t] # candidate[u]
    /\ rx_lock = NoTask

\* C37: the tasks that have not ended hold distinct slot ids, all within
\* 0..worker_count-1, so they are never more than worker_count.
C37_OneLiveWorkerPerSlot ==
  LET live == { t \in Tasks :
                  t <= spawned /\ ~ Finished(t)
                    /\ pc[t] \notin {"joined", "unspawned"} }
  IN /\ \A t, u \in live : worker_id[t] = worker_id[u] => t = u
     /\ \A t \in live : worker_id[t] \in 0..(worker_count - 1)
     /\ Cardinality(live) <= worker_count

\* Two slots, one on its first task, the other on the task of a restart.
C37_Witness ==
  \E t, u, v \in Tasks :
    /\ pc[t] = "joined"
    /\ v # t /\ worker_id[v] = worker_id[t]
    /\ pc[v] \in {"init", "lock", "recv", "poke"}
    /\ worker_id[u] # worker_id[t]
    /\ pc[u] \in {"lock", "recv", "poke"}
    /\ worker_count = 2

\* C35: with every construction succeeding, no attempt panicking and
\* every task that can step being run, a candidate waiting in the channel
\* is eventually dequeued (stated for the candidates the bound on dequeues
\* leaves room for; they are the first to arrive).
C35_AcceptedEventuallyDequeued ==
  \A c \in 1..MaxDequeues :
    (\E i \in DOMAIN queue : queue[i] = c)
      ~> (\E i \in DOMAIN received : received[i][1] = c)

\* A lone worker that has taken the second candidate after the attempt on
\* the first, which waited in the channel meanwhile.
C35_Witness ==
  /\ worker_count = 1
  /\ Len(received) = 2
  /\ received[2][1] = 2
  /\ candidate[received[2][2]] = 2

\* What holds of every parallel stage: the groups touch pairwise disjoint
\* indices, all within the array; and when the length is a power of two
\* the groups together touch every index.
ParallelGroupsDisjoint ==
  ntt.pc = "groups" =>
    /\ \A g, h \in 0..(ntt.items - 1) :
          g # h => group_indices(g, ntt.m) \cap group_indices(h, ntt.m) = {}
    /\ \A g \in 0..(ntt.items - 1) :
          group_indices(g, ntt.m) \subseteq 0..(Len(ntt.x) - 1)
    /\ is_power_of_two(Len(ntt.x)) =>
          UNION { group_indices(g, ntt.m) : g \in 0..(ntt.items - 1) }
            = 0..(Len(ntt.x) - 1)

\* C40: in a parallel stage with half-size m the groups 0..n/(2m)-1 touch
\* pairwise disjoint sets of indices, and the sets together are 0..n-1.
C40_GroupsPartitionTheArray ==
  ntt.pc = "groups" =>
    /\ \A g, h \in 0..(ntt.items - 1) :
          g # h => group_indices(g, ntt.m) \cap group_indices(h, ntt.m) = {}
    /\ UNION { group_indices(g, ntt.m) : g \in 0..(ntt.items - 1) }
          = 0..(Len(ntt.x) - 1)

\* C39: the global pool is built at most once, by one caller at a time,
\* and a caller that has got past call_once, or has returned, finds INIT
\* done and the pool built.
C39_PoolBuiltOnceBeforeReturn ==
  hot.pc = "ready" =>
    /\ hot.builds <= 1
    /\ \A t, u \in Tasks :
          (hot.callers[t] = "init_pool" /\ hot.callers[u] = "init_pool") => t = u
    /\ \A t \in Tasks :
          hot.callers[t] \in {"extend", "returned", "poke", "effects",
                               "mined", "attempted"} =>
            hot.once = "done" /\ hot.builds = 1

\* Every call made, one of them run to its end with a kernel of its own,
\* three callers returned from produce_prover_hot_state, one pool built.
C39_Witness ==
  /\ hot.pc = "ready"
  /\ hot.started = MaxHotCalls
  /\ \A t \in Tasks : hot.callers[t] = "returned"
  /\ hot.builds = 1
  /\ kernels = 1
====
